---- MODULE Spec2Model ----
(***************************************************************************)
(* A model of the script-representation layer declared in                  *)
(* js/src/vm/JSScript.h: the tier slots of a JSScript (ion, baseline), the *)
(* reference-counted SharedScriptData blocks and their interning table,    *)
(* the ScriptSource record with its pins and its deferred compression,     *)
(* LazyScripts and relazification, the XDR encoding, the trailing arrays   *)
(* of a script, the work of helper threads (source compression,           *)
(* off-thread optimizing compiles, the script-data lock), the eval-cache   *)
(* bits, AutoDelazify, the realm's maps of script counts and debug         *)
(* scripts, and the uncompressed source cache with its holders.            *)
(*                                                                         *)
(* Pointers are modelled as naturals: 0 is nullptr, the small values are   *)
(* the reserved sentinels of the header, larger values are real addresses. *)
(***************************************************************************)
EXTENDS Integers, Sequences, FiniteSets, TLC

\* ------------------------------------------------------------------ bounds

\* Number of JSScript objects of the tier specification.
NumScripts == 2
\* Number of distinct IonScript addresses a code generator can hand over.
NumIonHandles == 1
\* Number of distinct BaselineScript addresses.
NumBaselineHandles == 1

\* Number of JSScript objects that hold bytecode in the sharing specifications.
NumDataScripts == 2
\* Number of addresses the allocator can hand out for ScriptSource objects.
NumSources == 2
\* Number of ScriptSourceHolder objects.
NumHolders == 2
\* The PinnedUnits that can be in scope at once.
MaxPins == 2
\* The longest source text.
MaxSourceLen == 2
\* How many compression tasks of one source wait behind the one under way.
MaxPendingTasks == 1
\* Number of addresses for LazyScripts.
NumLazy == 2
\* The compilations of LazyScripts' functions that are followed.
MaxCompiles == 2
\* The greatest count of elements the emitter hands over for a trailing array.
MaxCount == 1


\* AutoDelazify objects in scope at once.
MaxGuards == 2
\* The chunks of compressed source that can be in the uncompressed source cache.
NumChunks == 2
\* The AutoHoldEntry objects that can be in scope at once.
MaxHoldEntries == 2
\* The addresses the allocator hands out for decompressed source data.
NumSourceData == 3

\* --------------------------------------------------------------- constants

nullptr == 0
ION_DISABLED_SCRIPT == 1
ION_COMPILING_SCRIPT == 2
ION_PENDING_SCRIPT == 3
BASELINE_DISABLED_SCRIPT == 1
\* sizeof(GCPtrAtom): an atom reference is one pointer of the payload.
SizeofGCPtrAtom == 8

Scripts == 1..NumScripts
\* Real IonScript addresses lie above the three sentinels.
IonHandles == (ION_PENDING_SCRIPT + 1)..(ION_PENDING_SCRIPT + NumIonHandles)
\* Real BaselineScript addresses lie above the one sentinel.
BaselineHandles ==
    (BASELINE_DISABLED_SCRIPT + 1)..(BASELINE_DISABLED_SCRIPT + NumBaselineHandles)

VARIABLES
    jit,         \* jit[s]: the fields JSScript::ion and JSScript::baseline of script s
    tierOp,      \* the last tier operation: its arguments, the slots before it, its result
    block,       \* block[p]: the SharedScriptData at address p (or freed memory)
    table,       \* the runtime's ScriptDataTable: a set of block addresses
    scriptLive,  \* scriptLive[s]: JSScript s is allocated and not finalized
    scriptData_, \* scriptData_[s]: the field JSScript::scriptData_ of script s
    dataOp,      \* the last operation on blocks: its name and the addresses it freed
    source,      \* source[p]: the ScriptSource at address p (or freed memory)
    holder,      \* holder[h]: the ScriptSourceHolder h
    refErr,      \* a reference count was touched on freed memory or decremented at zero
    sourceText,  \* the text fields of one ScriptSource: data, pinnedUnitsStack_, pendingCompressed_
    pins,        \* the PinnedUnits in scope on that source, innermost last
    task,        \* the source's SourceCompressionTask
    srcOp,       \* the last operation on the source's text
    srcCrash,    \* a call on the source's text crashed or failed an assertion
    pendingTasks, \* the compression tasks of the source that wait behind task
    lazyHeap,    \* lazyHeap[l]: the LazyScript at address l (or free memory)
    funScript,   \* funScript[l]: the JSScript of l's function, nullptr while it is lazy
    scriptHeap,  \* scriptHeap[s]: the JSScript compiled from a LazyScript at address s
    compiles,    \* how many functions of LazyScripts were compiled
    lazyOp,      \* the last operation on LazyScripts
    relazScript, \* the fields of one function's JSScript that relazification reads
    relazFun,    \* that function: not compiled yet, with its script, or lazy again
    relazOp,     \* the last operation on that script
    xdrScript,   \* xdrScript[s]: the flags and the source location of JSScript s
    xdrBuf,      \* the XDR buffer last encoded into
    xdrOp,       \* the last operation of the XDR encoder or decoder
    buildScript, \* buildScript[s]: the trailing data, array bits and tier slots of script s
    buildOp,     \* the last operation on a script under construction
    layoutScript, \* a script whose trailing arrays partiallyInit has laid out
    ionTask,     \* the off-thread optimizing compile of one function's script
    critical,    \* critical[s]: what the thread compiling script s found under the script-data lock
    evalScript,  \* the run-once and eval-cache bits of one eval script's bitFields_
    evalOp,      \* the last call on that script: its name, the bits it found, its result
    guards,      \* the AutoDelazify objects in scope, innermost last
    sideScript,  \* sideScript[s]: whether JSScript s is allocated, its hasScriptCounts_ and hasDebugScript_
    realm,       \* the realm's scriptCountsMap and debugScriptMap: the scripts that are keys
    sideOp,      \* the last operation on the counts and debug scripts
    srcCache,    \* the UncompressedSourceCache: map_ (chunk to data) and holder_
    holdEntries, \* holdEntries[h]: the AutoHoldEntry h
    cacheHeap,   \* cacheHeap[d]: the source data at address d is allocated
    cacheOp      \* the last operation on the cache or on a holder

tierVars == <<jit, tierOp>>
dataVars == <<block, table, scriptLive, scriptData_, dataOp>>
holderVars == <<source, holder>>
sourceVars == <<sourceText, pins, task, srcOp, srcCrash, pendingTasks>>
lazyVars == <<lazyHeap, funScript, scriptHeap, compiles, lazyOp>>
relazVars == <<relazScript, relazFun, relazOp>>
xdrVars == <<xdrScript, xdrBuf, xdrOp>>
buildVars == <<buildScript, buildOp, layoutScript>>
bgVars == <<ionTask, critical>>
evalVars == <<evalScript, evalOp>>
countsVars == <<sideScript, realm, sideOp>>
cacheVars == <<srcCache, holdEntries, cacheHeap, cacheOp>>
sideVars == <<evalVars, guards, countsVars, cacheVars>>
vars == <<jit, tierOp, block, table, scriptLive, scriptData_, dataOp,
          source, holder, refErr, sourceText, pins, task, srcOp, srcCrash,
          pendingTasks,
          lazyHeap, funScript, scriptHeap, compiles, lazyOp,
          relazScript, relazFun, relazOp, xdrScript, xdrBuf, xdrOp,
          buildScript, buildOp, layoutScript, ionTask, critical,
          evalScript, evalOp, guards, sideScript, realm, sideOp,
          srcCache, holdEntries, cacheHeap, cacheOp>>
notTier == <<dataVars, holderVars, refErr, sourceVars, lazyVars, relazVars, xdrVars, buildVars, bgVars, sideVars>>
notData == <<tierVars, holderVars, sourceVars, lazyVars, relazVars, xdrVars, buildVars, bgVars, sideVars>>
notHolder == <<tierVars, dataVars, sourceVars, lazyVars, relazVars, xdrVars, buildVars, bgVars, sideVars>>
notSource == <<tierVars, dataVars, holderVars, refErr, lazyVars, relazVars, xdrVars, buildVars, bgVars, sideVars>>
notLazy == <<tierVars, dataVars, holderVars, refErr, sourceVars, relazVars, xdrVars, buildVars, bgVars, sideVars>>
notXdr == <<tierVars, holderVars, sourceVars, lazyVars, relazVars, buildVars, bgVars, sideVars>>
notRelaz == <<tierVars, dataVars, holderVars, refErr, sourceVars, lazyVars, xdrVars, buildVars, bgVars, sideVars>>

\* ================================================================ tier slots

\* JSScript(): ion = nullptr, baseline = nullptr.
NewJSScript == [ion |-> nullptr, baseline |-> nullptr]

hasIonScript_eqTypo(js) ==
    /\ js.ion # nullptr
    /\ js.ion # ION_DISABLED_SCRIPT
    /\ js.ion # ION_COMPILING_SCRIPT
    /\ js.ion = ION_PENDING_SCRIPT

\* hasIonScript that forgets the pending sentinel.
hasIonScript_noPending(js) ==
    /\ js.ion # nullptr
    /\ js.ion # ION_DISABLED_SCRIPT
    /\ js.ion # ION_COMPILING_SCRIPT

\* JSScript::hasIonScript: a real address, none of the three sentinels.
hasIonScript(js) ==
    /\ js.ion # nullptr
    /\ js.ion # ION_DISABLED_SCRIPT
    /\ js.ion # ION_COMPILING_SCRIPT
    /\ js.ion # ION_PENDING_SCRIPT

\* MOZ_ASSERT_IF(res, baseline) of hasIonScript.
hasIonScript_assert(js) == hasIonScript(js) => js.baseline # nullptr

\* canIonCompile that never refuses.
canIonCompile_always(js) == TRUE

\* JSScript::canIonCompile.
canIonCompile(js) == js.ion # ION_DISABLED_SCRIPT

\* isIonCompilingOffThread that tests for the pending sentinel.
isIonCompilingOffThread_pending(js) == js.ion = ION_PENDING_SCRIPT

\* JSScript::isIonCompilingOffThread.
isIonCompilingOffThread(js) == js.ion = ION_COMPILING_SCRIPT

hasBaselineScript_noSentinel(js) == js.baseline # nullptr

\* JSScript::hasBaselineScript: a real address, not the disabled sentinel.
hasBaselineScript(js) ==
    js.baseline # nullptr /\ js.baseline # BASELINE_DISABLED_SCRIPT

\* MOZ_ASSERT_IF(!res, !ion || ion == ION_DISABLED_SCRIPT) of hasBaselineScript.
hasBaselineScript_assert(js) ==
    ~hasBaselineScript(js) => (js.ion = nullptr \/ js.ion = ION_DISABLED_SCRIPT)

\* canBaselineCompile that tests for null.
canBaselineCompile_null(js) == js.baseline # nullptr

\* JSScript::canBaselineCompile.
canBaselineCompile(js) == js.baseline # BASELINE_DISABLED_SCRIPT

\* JSScript::setIonScript stores the slot (declared void: it reports nothing).
setIonScript(js, ionScript) == [js EXCEPT !.ion = ionScript]

\* JSScript::setBaselineScript stores the slot.
setBaselineScript(js, baselineScript) == [js EXCEPT !.baseline = baselineScript]

\* The outcome of a tier operation: the script afterwards and the result.
Outcome(js, result) == [js |-> js, result |-> result]

\* attach(optimizing, codeHandle): refused with an ordering error unless
\* baseline code is attached; a disabled slot stays disabled.
attachIon(js, h) ==
    IF ~hasBaselineScript(js) THEN Outcome(js, "OrderingError")
    ELSE IF ~canIonCompile(js) THEN Outcome(js, "Disabled")
    ELSE Outcome(setIonScript(js, h), "ok")

\* markCompiling(optimizing): an absent slot becomes compiling-off-thread; a
\* disabled slot stays disabled.
markCompilingIon(js) ==
    IF ~canIonCompile(js) THEN Outcome(js, "Disabled")
    ELSE IF js.ion # nullptr THEN Outcome(js, "Busy")
    ELSE Outcome(setIonScript(js, ION_COMPILING_SCRIPT), "ok")

\* markPendingLink(): the off-thread compile is ready, not yet linked.
markPendingLink(js) ==
    IF ~isIonCompilingOffThread(js) THEN Outcome(js, "NotCompiling")
    ELSE Outcome(setIonScript(js, ION_PENDING_SCRIPT), "ok")

\* linkPending(): the pending code is wired in.
linkPending(js, h) ==
    IF js.ion # ION_PENDING_SCRIPT THEN Outcome(js, "NotPending")
    ELSE attachIon(js, h)

\* disable(optimizing): from any state, permanently.
disableIon(js) == Outcome(setIonScript(js, ION_DISABLED_SCRIPT), "ok")

\* detachOptimizing(): attached optimizing code is dropped; the baseline slot
\* is not written.
detachOptimizing(js) ==
    IF hasIonScript(js) THEN Outcome(setIonScript(js, nullptr), "ok")
    ELSE Outcome(js, "ok")

\* attach(baseline, codeHandle), synchronously on the owning thread; a
\* disabled slot stays disabled.
attachBaseline(js, h) ==
    IF ~canBaselineCompile(js) THEN Outcome(js, "Disabled")
    ELSE Outcome(setBaselineScript(js, h), "ok")

\* disable(baseline): from any state, permanently.
disableBaseline(js) == Outcome(setBaselineScript(js, BASELINE_DISABLED_SCRIPT), "ok")

NoTierOp ==
    [op |-> "none", tier |-> "none", s |-> 0, arg |-> nullptr,
     pre |-> NewJSScript, result |-> "none"]

\* One call of a tier operation on script s: the slots become the outcome's,
\* and the call is recorded with the slots it found.
TierCall(s, op, tier, arg, out) ==
    /\ jit' = [jit EXCEPT ![s] = out.js]
    /\ tierOp' = [op |-> op, tier |-> tier, s |-> s, arg |-> arg,
                  pre |-> jit[s], result |-> out.result]
    /\ UNCHANGED notTier

AttachIon(s, h) == TierCall(s, "attach", "ion", h, attachIon(jit[s], h))
MarkCompilingIon(s) ==
    TierCall(s, "markCompiling", "ion", nullptr, markCompilingIon(jit[s]))
MarkPendingLink(s) ==
    TierCall(s, "markPendingLink", "ion", nullptr, markPendingLink(jit[s]))
LinkPending(s, h) == TierCall(s, "linkPending", "ion", h, linkPending(jit[s], h))
DisableIon(s) == TierCall(s, "disable", "ion", nullptr, disableIon(jit[s]))
DetachOptimizing(s) ==
    TierCall(s, "detachOptimizing", "ion", nullptr, detachOptimizing(jit[s]))
AttachBaseline(s, h) ==
    TierCall(s, "attach", "baseline", h, attachBaseline(jit[s], h))
DisableBaseline(s) ==
    TierCall(s, "disable", "baseline", nullptr, disableBaseline(jit[s]))

TierInit ==
    /\ jit = [s \in Scripts |-> NewJSScript]
    /\ tierOp = NoTierOp

TierNext ==
    \/ \E s \in Scripts, h \in IonHandles : AttachIon(s, h)
    \/ \E s \in Scripts : MarkCompilingIon(s)
    \/ \E s \in Scripts : MarkPendingLink(s)
    \/ \E s \in Scripts, h \in IonHandles : LinkPending(s, h)
    \/ \E s \in Scripts : DisableIon(s)
    \/ \E s \in Scripts : DetachOptimizing(s)
    \/ \E s \in Scripts, h \in BaselineHandles : AttachBaseline(s, h)
    \/ \E s \in Scripts : DisableBaseline(s)

\* ------------------------------------------------------- tier slots: claims

C1_AttachFoundBaseline ==
    /\ \A s \in Scripts : hasIonScript_assert(jit[s])
    /\ (tierOp.tier = "ion" /\ tierOp.pre.ion \notin IonHandles
            /\ jit[tierOp.s].ion \in IonHandles)
       => /\ tierOp.op \in {"attach", "linkPending"}
          /\ tierOp.pre.baseline \in BaselineHandles

C2_RefusedAttachWritesNothing ==
    (/\ tierOp.op = "attach"
     /\ tierOp.tier = "ion"
     /\ tierOp.pre.baseline \notin BaselineHandles)
    => /\ tierOp.result = "OrderingError"
       /\ jit[tierOp.s] = tierOp.pre

C2_Witness ==
    /\ tierOp.op = "attach"
    /\ tierOp.tier = "ion"
    /\ tierOp.pre.baseline = BASELINE_DISABLED_SCRIPT
    /\ tierOp.result = "OrderingError"

\* C3: detachOptimizing() can be called in every state of the optimizing slot,
\* always ends ok, leaves the baseline slot as it was, and afterwards no
\* optimizing code is attached.
C3_DetachOptimizingKeepsBaseline ==
    /\ \A s \in Scripts : ENABLED DetachOptimizing(s)
    /\ tierOp.op = "detachOptimizing"
       => /\ tierOp.result = "ok"
          /\ jit[tierOp.s].baseline = tierOp.pre.baseline
          /\ jit[tierOp.s].ion \notin IonHandles

\* C3 witness: attached optimizing code was detached and baseline code stayed.
C3_Witness ==
    /\ tierOp.op = "detachOptimizing"
    /\ tierOp.pre.ion \in IonHandles
    /\ jit[tierOp.s].ion = nullptr
    /\ jit[tierOp.s].baseline \in BaselineHandles

IonState(js) ==
    IF js.ion = nullptr THEN "absent"
    ELSE IF js.ion = ION_DISABLED_SCRIPT THEN "disabled"
    ELSE IF js.ion = ION_COMPILING_SCRIPT THEN "compiling"
    ELSE IF js.ion = ION_PENDING_SCRIPT THEN "pending"
    ELSE IF js.ion \in IonHandles THEN "attached"
    ELSE "invalid"

\* C32: the optimizing slot always holds nullptr, one of the three sentinels
\* or a real IonScript address; hasIonScript() is true exactly for a real
\* address, isIonCompilingOffThread() exactly for the compiling sentinel,
\* canIonCompile() is false exactly for the disabled sentinel; and the
\* assertion of hasIonScript holds.
C32_IonPredicatesAgree ==
    \A s \in Scripts :
        /\ IonState(jit[s]) # "invalid"
        /\ hasIonScript(jit[s]) <=> IonState(jit[s]) = "attached"
        /\ isIonCompilingOffThread(jit[s]) <=> IonState(jit[s]) = "compiling"
        /\ ~canIonCompile(jit[s]) <=> IonState(jit[s]) = "disabled"
        /\ hasIonScript_assert(jit[s])

\* C32 witness: a compile became pending link; the slot holds the pending
\* sentinel and is not reported as attached code.
C32_Witness ==
    /\ tierOp.op = "markPendingLink"
    /\ tierOp.result = "ok"
    /\ jit[tierOp.s].ion = ION_PENDING_SCRIPT
    /\ ~hasIonScript(jit[tierOp.s])

\* C33: a disabled slot stays disabled: no step moves the optimizing slot or
\* the baseline slot of a script out of its disabled sentinel, and
\* markCompiling, attach, markPendingLink, linkPending and detachOptimizing on
\* a script with a disabled slot leave that slot as it is.
C33_Step ==
    \A s \in Scripts :
        /\ jit[s].ion = ION_DISABLED_SCRIPT => jit'[s].ion = ION_DISABLED_SCRIPT
        /\ jit[s].baseline = BASELINE_DISABLED_SCRIPT
               => jit'[s].baseline = BASELINE_DISABLED_SCRIPT

C33_DisabledIsPermanent == [][C33_Step]_vars

\* C33 witness: attach(optimizing) was called on a script with baseline code
\* whose optimizing slot had been disabled; it was refused and the slot is
\* still disabled.
C33_Witness ==
    /\ tierOp.op = "attach"
    /\ tierOp.tier = "ion"
    /\ tierOp.pre.ion = ION_DISABLED_SCRIPT
    /\ tierOp.pre.baseline \in BaselineHandles
    /\ tierOp.result = "Disabled"
    /\ jit[tierOp.s].ion = ION_DISABLED_SCRIPT

\* C34: the baseline slot holds nullptr, the disabled sentinel or a real
\* BaselineScript address, and nothing else; hasBaselineScript() is true
\* exactly for a real address and canBaselineCompile() false exactly for the
\* sentinel; the slot changes only in attach(baseline) and disable(baseline):
\* the operations of the optimizing tier (markCompiling, markPendingLink,
\* linkPending, attach, disable, detachOptimizing) never write it.
C34_State ==
    \A s \in Scripts :
        /\ jit[s].baseline \in {nullptr, BASELINE_DISABLED_SCRIPT} \cup BaselineHandles
        /\ hasBaselineScript(jit[s]) <=> jit[s].baseline \in BaselineHandles
        /\ ~canBaselineCompile(jit[s]) <=> jit[s].baseline = BASELINE_DISABLED_SCRIPT

C34_Step ==
    \A s \in Scripts :
        jit'[s].baseline # jit[s].baseline =>
            /\ tierOp'.s = s
            /\ tierOp'.tier = "baseline"
            /\ tierOp'.op \in {"attach", "disable"}
            /\ tierOp'.result = "ok"
            /\ jit'[s].baseline \in {BASELINE_DISABLED_SCRIPT} \cup BaselineHandles

C34_BaselineThreeStates == []C34_State /\ [][C34_Step]_vars

\* C34 witness: an off-thread compile of the optimizing tier became pending
\* link, and the baseline slot still holds the code attached before.
C34_Witness ==
    /\ tierOp.op = "markPendingLink"
    /\ tierOp.tier = "ion"
    /\ tierOp.result = "ok"
    /\ tierOp.pre.baseline \in BaselineHandles
    /\ jit[tierOp.s].baseline = tierOp.pre.baseline

\* ===================================================== shared bytecode blocks

DataScripts == 1..NumDataScripts
\* Addresses of SharedScriptData blocks (nullptr is none of them): one per
\* script, and one more for an entry that only the table still references.
BlockPtrs == 1..(NumDataScripts + 1)
\* What the emitter hands over for one compiled unit: the atom references,
\* the instruction stream and the notes.
Content(atoms, code, notes) == [atoms |-> atoms, code |-> code, notes |-> notes]

\* The units the emitter hands over. The first two hold the same payload
\* bytes, split differently between instructions and notes; the third differs
\* from the first in one instruction byte only; the fourth has an atom.
Contents ==
    {Content(<<>>, <<0>>, <<0, 0>>),
     Content(<<>>, <<0, 0>>, <<0>>),
     Content(<<>>, <<1>>, <<0, 0>>),
     Content(<<1>>, <<0>>, <<0, 0>>)}

\* The bytes of one atom pointer in the payload (little endian).
PtrBytes(a) == [i \in 1..SizeofGCPtrAtom |-> IF i = 1 THEN a ELSE 0]

RECURSIVE AtomBytes(_)
\* The bytes of the atom references at the head of the payload.
AtomBytes(atoms) ==
    IF atoms = <<>> THEN <<>> ELSE PtrBytes(Head(atoms)) \o AtomBytes(Tail(atoms))

\* Freed memory: nothing of the block is left.
FreedBlock ==
    [live |-> FALSE, refCount_ |-> 0, natoms_ |-> 0, codeLength_ |-> 0,
     noteLength_ |-> 0, data_ |-> <<>>]

\* SharedScriptData::new_ followed by the emitter's copy of the payload: the
\* lengths, then the atoms, the instruction stream and the notes in this order.
new_(c) ==
    [live |-> TRUE, refCount_ |-> 0, natoms_ |-> Len(c.atoms),
     codeLength_ |-> Len(c.code), noteLength_ |-> Len(c.notes),
     data_ |-> AtomBytes(c.atoms) \o c.code \o c.notes]

incRefCount_skipped(b) == b

\* SharedScriptData::incRefCount.  (The counts are uint32_t; they are kept
\* here as their residues nearest zero, so 0 - 1 is -1, which stands for
\* 0xFFFFFFFF: not zero. No count of the model comes near wrapping upwards.)
incRefCount(b) == [b EXCEPT !.refCount_ = @ + 1]

decRefCount_offByOne(b) ==
    LET remain == b.refCount_ - 1 IN
    IF remain <= 1 THEN FreedBlock ELSE [b EXCEPT !.refCount_ = remain]

\* decRefCount that stores the count and never frees.
decRefCount_neverFrees(b) == [b EXCEPT !.refCount_ = @ - 1]

decRefCount_notStored(b) ==
    LET remain == b.refCount_ - 1 IN
    IF remain = 0 THEN FreedBlock ELSE b

\* SharedScriptData::decRefCount: js_free(this) when the count reaches zero.
decRefCount(b) ==
    LET remain == b.refCount_ - 1 IN
    IF remain = 0 THEN FreedBlock ELSE [b EXCEPT !.refCount_ = remain]

\* MOZ_ASSERT(refCount_ != 0) of decRefCount.
decRefCount_assert(b) == b.refCount_ # 0

\* SharedScriptData::dataLength.
dataLength(b) == (b.natoms_ * SizeofGCPtrAtom) + b.codeLength_ + b.noteLength_

\* mozilla::ArrayEqual<uint8_t>(a, b, n): the first n bytes agree.
ArrayEqual(a, b, n) == \A i \in 1..n : a[i] = b[i]

match_payloadOnly(entry, data) ==
    /\ dataLength(entry) = dataLength(data)
    /\ ArrayEqual(entry.data_, data.data_, dataLength(data))

\* ScriptBytecodeHasher::match: the three lengths, then the payload bytes.
match(entry, data) ==
    IF entry.natoms_ # data.natoms_ THEN FALSE
    ELSE IF entry.codeLength_ # data.codeLength_ THEN FALSE
    ELSE IF entry.noteLength_ # data.noteLength_ THEN FALSE
    ELSE ArrayEqual(entry.data_, data.data_, dataLength(data))

\* JSScript::code on a script whose scriptData_ is sd: null without a block,
\* else the block's instruction stream (a non-null address, named here by the
\* block's).
code(sd) == IF sd = nullptr THEN nullptr ELSE sd

\* isUncompleted that never reports an uncompleted script.
isUncompleted_never(sd) == FALSE

\* JSScript::isUncompleted.
isUncompleted(sd) == code(sd) = nullptr

\* A call of incRefCount on the block at address p.
IncRef(heap, p) == [heap EXCEPT ![p] = incRefCount(@)]
\* A call of decRefCount on the block at address p.
DecRef(heap, p) == [heap EXCEPT ![p] = decRefCount(@)]
\* The call touches freed memory.
BadIncRef(heap, p) == ~heap[p].live
\* The call touches freed memory or trips decRefCount's assertion.
BadDecRef(heap, p) == ~heap[p].live \/ ~decRefCount_assert(heap[p])

\* The allocator: the lowest address that holds no block (nullptr when the
\* memory is exhausted). A freed address is handed out again.
Malloc ==
    IF \A p \in BlockPtrs : block[p].live THEN nullptr
    ELSE CHOOSE p \in BlockPtrs :
           ~block[p].live /\ \A q \in BlockPtrs : ~block[q].live => p <= q

\* The record of an operation on blocks.
DataOp(op, freed) == [op |-> op, freed |-> freed]
\* The addresses whose block a step freed.
FreedBy(before, after) == {p \in BlockPtrs : before[p].live /\ ~after[p].live}

\* The scripts whose scriptData_ is p.
Referrers(p) == {s \in DataScripts : scriptLive[s] /\ scriptData_[s] = p}

\* JSScript::Create: a new script, uncompleted (no bytecode yet).
CreateScript(s) ==
    /\ ~scriptLive[s]
    /\ scriptLive' = [scriptLive EXCEPT ![s] = TRUE]
    /\ scriptData_' = [scriptData_ EXCEPT ![s] = nullptr]
    /\ dataOp' = DataOp("create", {})
    /\ UNCHANGED <<block, table, refErr, notData>>

\* JSScript::createScriptData: a fresh block for the script (setScriptData
\* takes the script's reference); an allocation failure changes nothing.
CreateScriptData(s, c, oom) ==
    /\ scriptLive[s]
    /\ scriptData_[s] = nullptr
    /\ IF oom THEN UNCHANGED <<block, scriptData_>>
       ELSE \E p \in BlockPtrs :
              /\ p = Malloc
              /\ block' = [block EXCEPT ![p] = incRefCount(new_(c))]
              /\ scriptData_' = [scriptData_ EXCEPT ![s] = p]
    /\ dataOp' = DataOp("createScriptData", {})
    /\ UNCHANGED <<table, scriptLive, refErr, notData>>

\* JSScript::shareScriptData, under the script-data lock: on a hit the script
\* drops its candidate and points at the entry; on a miss the candidate is
\* added and the table takes a reference; a failed add drops the candidate.
ShareScriptData(s, oom) ==
    LET ssd == scriptData_[s] IN
    /\ scriptLive[s]
    /\ ssd # nullptr
    /\ ssd \notin table
    /\ block[ssd].refCount_ = 1
    /\ LET hits == {p \in table : match(block[p], block[ssd])} IN
       IF hits # {}
       THEN \E p \in hits :
              /\ block' = IncRef(DecRef(block, ssd), p)
              /\ scriptData_' = [scriptData_ EXCEPT ![s] = p]
              /\ refErr' = (refErr \/ BadDecRef(block, ssd)
                                   \/ BadIncRef(DecRef(block, ssd), p))
              /\ UNCHANGED table
       ELSE IF oom
       THEN /\ block' = DecRef(block, ssd)
            /\ scriptData_' = [scriptData_ EXCEPT ![s] = nullptr]
            /\ refErr' = (refErr \/ BadDecRef(block, ssd))
            /\ UNCHANGED table
       ELSE /\ table' = table \cup {ssd}
            /\ block' = IncRef(block, ssd)
            /\ refErr' = (refErr \/ BadIncRef(block, ssd))
            /\ UNCHANGED scriptData_
    /\ dataOp' = DataOp("shareScriptData", FreedBy(block, block'))
    /\ UNCHANGED <<scriptLive, notData>>

\* JSScript::finalize: the script releases its reference and is gone.
FinalizeScriptData(s) ==
    /\ scriptLive[s]
    /\ scriptLive' = [scriptLive EXCEPT ![s] = FALSE]
    /\ scriptData_' = [scriptData_ EXCEPT ![s] = nullptr]
    /\ IF scriptData_[s] # nullptr
       THEN /\ block' = DecRef(block, scriptData_[s])
            /\ refErr' = (refErr \/ BadDecRef(block, scriptData_[s]))
       ELSE UNCHANGED <<block, refErr>>
    /\ dataOp' = DataOp("finalize", FreedBy(block, block'))
    /\ UNCHANGED table

FinalizeScript(s) == FinalizeScriptData(s) /\ UNCHANGED notData

\* The entries SweepScriptData removes: those whose only reference is the table's.
Unreferenced == {p \in table : block[p].refCount_ = 1}

\* SweepScriptData, under the script-data lock: every entry whose only
\* reference is the table's is released and removed.
SweepScriptData ==
    /\ table # {}
    /\ table' = table \ Unreferenced
    /\ block' = [p \in BlockPtrs |->
                   IF p \in Unreferenced THEN decRefCount(block[p]) ELSE block[p]]
    /\ refErr' = (refErr \/ \E p \in Unreferenced : BadDecRef(block, p))
    /\ dataOp' = DataOp("sweep", FreedBy(block, block'))
    /\ UNCHANGED <<scriptLive, scriptData_, notData>>

DataInit ==
    /\ block = [p \in BlockPtrs |-> FreedBlock]
    /\ table = {}
    /\ scriptLive = [s \in DataScripts |-> FALSE]
    /\ scriptData_ = [s \in DataScripts |-> nullptr]
    /\ dataOp = DataOp("none", {})
    /\ refErr = FALSE

DataNext ==
    \/ \E s \in DataScripts : CreateScript(s)
    \/ \E s \in DataScripts, c \in Contents, oom \in BOOLEAN :
          CreateScriptData(s, c, oom)
    \/ \E s \in DataScripts, oom \in BOOLEAN : ShareScriptData(s, oom)
    \/ \E s \in DataScripts : FinalizeScript(s)
    \/ SweepScriptData


\* ------------------------------------------- shared bytecode blocks: claims

\* Structural equality of two blocks: atom count, instruction-stream length,
\* note-stream length and payload.
StructurallyEqual(a, b) ==
    /\ a.natoms_ = b.natoms_
    /\ a.codeLength_ = b.codeLength_
    /\ a.noteLength_ = b.noteLength_
    /\ a.data_ = b.data_

\* No two entries of the table are structurally equal, so two scripts whose
\* registered blocks are structurally equal point at one instance.
C6_State ==
    /\ \A p, q \in table : StructurallyEqual(block[p], block[q]) => p = q
    /\ \A s1, s2 \in DataScripts :
         (/\ scriptLive[s1] /\ scriptData_[s1] \in table
          /\ scriptLive[s2] /\ scriptData_[s2] \in table
          /\ StructurallyEqual(block[scriptData_[s1]], block[scriptData_[s2]]))
         => scriptData_[s1] = scriptData_[s2]

\* A step that moves a script from one block to another (interning its
\* candidate) moves it to a structurally equal block.
C6_Step ==
    \A s \in DataScripts :
      (/\ scriptLive[s] /\ scriptData_[s] # nullptr
       /\ scriptLive'[s] /\ scriptData_'[s] # nullptr)
      => StructurallyEqual(block[scriptData_[s]], block'[scriptData_'[s]])

\* C6: structurally equal blocks are interned to one shared instance (the
\* table never holds two structurally equal entries), and a script is never
\* given a block that differs from its own in atom count, instruction-stream
\* length, note-stream length or payload.
C6_InternDedup == []C6_State /\ [][C6_Step]_vars

\* C6 witness: two scripts share one instance, while the table also holds an
\* entry with the same payload bytes split differently, which was not merged.
C6_Witness ==
    /\ \E s1, s2 \in DataScripts :
         /\ s1 # s2 /\ scriptLive[s1] /\ scriptLive[s2]
         /\ scriptData_[s1] # nullptr /\ scriptData_[s1] = scriptData_[s2]
    /\ \E p, q \in table :
         /\ p # q /\ block[p].data_ = block[q].data_

\* C7 as stated: the reference count of an interned block equals the number
\* of live scripts that reference it.
C7_CountEqualsScripts ==
    \A p \in table : block[p].refCount_ = Cardinality(Referrers(p))

\* C7 as amended: the reference count of an interned block equals the number
\* of live scripts that reference it plus one, the table's own reference.
C7_CountEqualsScriptsPlusTable ==
    \A p \in table : block[p].refCount_ = Cardinality(Referrers(p)) + 1

\* C7 witness: a script was finalized and another still references the
\* interned block.
C7_Witness ==
    /\ dataOp.op = "finalize"
    /\ \E p \in table : Referrers(p) # {}

\* C8: the reference count of a block equals the number of scripts pointing
\* at it, plus one if the block is registered in the table and plus zero
\* otherwise.
C8_CountEqualsScriptsPlusRegistered ==
    \A p \in BlockPtrs :
      block[p].live =>
        block[p].refCount_ =
          Cardinality(Referrers(p)) + (IF p \in table THEN 1 ELSE 0)

\* C8 witness: a registered block with a script, and an unregistered candidate.
C8_Witness ==
    /\ \E p \in table : Referrers(p) # {}
    /\ \E p \in BlockPtrs \ table : block[p].live /\ block[p].refCount_ = 1

\* C10: the table never holds the address of a freed block: whatever an
\* operation freed is no longer registered when the operation is over.
C10_TableHoldsNoFreedBlock ==
    /\ \A p \in table : block[p].live
    /\ dataOp.freed \cap table = {}

\* C10 witness: a sweep freed an entry while other entries stay registered.
C10_Witness ==
    /\ dataOp.op = "sweep"
    /\ dataOp.freed # {}
    /\ table # {}

\* The count of the block at p, zero for memory that holds no block.
CountAt(heap, p) == IF heap[p].live THEN heap[p].refCount_ ELSE 0

\* C37: a sweep removes from the table and frees every entry that no live
\* script references, keeps every entry that a live script references, with
\* its count and contents as they were, and writes no script; blocks outside
\* the table are left alone and no count is touched on freed memory.
C37_Step ==
    dataOp'.op = "sweep" =>
        /\ \A p \in table :
             IF Referrers(p) = {}
             THEN /\ p \notin table'
                  /\ ~block'[p].live
                  /\ p \in dataOp'.freed
             ELSE /\ p \in table'
                  /\ block'[p] = block[p]
                  /\ block'[p].live
        /\ table' \subseteq table
        /\ \A p \in BlockPtrs \ table : block'[p] = block[p]
        /\ scriptData_' = scriptData_
        /\ scriptLive' = scriptLive
        /\ ~refErr'

C37_SweepRemovesUnreferenced == [][C37_Step]_vars

\* C37 witness: a sweep freed an entry whose script had been finalized and
\* kept another entry, which a live script references.
C37_Witness ==
    /\ dataOp.op = "sweep"
    /\ dataOp.freed # {}
    /\ \E p \in table : Referrers(p) # {} /\ block[p].refCount_ = Cardinality(Referrers(p)) + 1

\* ============================================== ScriptSource reference counts

SourcePtrs == 1..NumSources
Holders == 1..NumHolders

\* Freed memory where a ScriptSource was.
FreedSource == [live |-> FALSE, refs |-> 0]

\* ScriptSource(): refs(0).
NewScriptSource == [live |-> TRUE, refs |-> 0]

\* ScriptSource::incref.
incref(src) == [src EXCEPT !.refs = @ + 1]

\* ScriptSource::decref: js_delete(this) when the count reaches zero.
decref(src) ==
    IF src.refs - 1 = 0 THEN FreedSource ELSE [src EXCEPT !.refs = @ - 1]

\* MOZ_ASSERT(refs != 0) of decref.
decref_assert(src) == src.refs # 0

\* A holder that was not constructed, or was destroyed.
NoHolder == [made |-> FALSE, ss |-> nullptr]

\* The sources and holders after a call, and whether the call was in error.
HolderOutcome(src, hs, err) == [source |-> src, holder |-> hs, err |-> err]

\* ss->incref() on the source at address p.
Incref(src, p) == [src EXCEPT ![p] = incref(@)]
\* ss->decref() on the source at address p.
Decref(src, p) == [src EXCEPT ![p] = decref(@)]
\* The call touches freed memory.
BadIncref(src, p) == ~src[p].live
\* The call touches freed memory or trips decref's assertion.
BadDecref(src, p) == ~src[p].live \/ ~decref_assert(src[p])

\* ScriptSourceHolder(): ss(nullptr).
Holder_default(src, hs, h) ==
    HolderOutcome(src, [hs EXCEPT ![h] = [made |-> TRUE, ss |-> nullptr]], FALSE)

\* ScriptSourceHolder(ScriptSource* ss): ss(ss) { ss->incref(); }
Holder_ctor(src, hs, h, ss) ==
    HolderOutcome(Incref(src, ss), [hs EXCEPT ![h] = [made |-> TRUE, ss |-> ss]],
                  BadIncref(src, ss))

\* ~ScriptSourceHolder(): if (ss) ss->decref();
Holder_dtor(src, hs, h) ==
    IF hs[h].ss # nullptr
    THEN HolderOutcome(Decref(src, hs[h].ss), [hs EXCEPT ![h] = NoHolder],
                       BadDecref(src, hs[h].ss))
    ELSE HolderOutcome(src, [hs EXCEPT ![h] = NoHolder], FALSE)

Holder_reset_decrefFirst(src, hs, h, newss) ==
    LET src1 == IF hs[h].ss # nullptr THEN Decref(src, hs[h].ss) ELSE src
        err1 == hs[h].ss # nullptr /\ BadDecref(src, hs[h].ss)
        src2 == IF newss # nullptr THEN Incref(src1, newss) ELSE src1
        err2 == newss # nullptr /\ BadIncref(src1, newss)
    IN  HolderOutcome(src2, [hs EXCEPT ![h].ss = newss], err1 \/ err2)

\* ScriptSourceHolder::reset: incref before decref, in case ss == newss.
Holder_reset(src, hs, h, newss) ==
    LET src1 == IF newss # nullptr THEN Incref(src, newss) ELSE src
        err1 == newss # nullptr /\ BadIncref(src, newss)
        src2 == IF hs[h].ss # nullptr THEN Decref(src1, hs[h].ss) ELSE src1
        err2 == hs[h].ss # nullptr /\ BadDecref(src1, hs[h].ss)
    IN  HolderOutcome(src2, [hs EXCEPT ![h].ss = newss], err1 \/ err2)

\* The holders that point at the source at address p.
HoldersOf(p) == {h \in Holders : holder[h].made /\ holder[h].ss = p}

\* The pointers a caller can pass: nullptr, or a source some holder keeps alive.
HeldSources == {p \in SourcePtrs : HoldersOf(p) # {}}

\* The allocator: the lowest address that holds no source (nullptr when the
\* memory is exhausted). A freed address is handed out again.
MallocSource ==
    IF \A p \in SourcePtrs : source[p].live THEN nullptr
    ELSE CHOOSE p \in SourcePtrs :
           ~source[p].live /\ \A q \in SourcePtrs : ~source[q].live => p <= q

\* One call on the holders: the sources and holders become the outcome's.
HolderCall(out) ==
    /\ source' = out.source
    /\ holder' = out.holder
    /\ refErr' = (refErr \/ out.err)
    /\ UNCHANGED notHolder

\* A default-constructed holder.
HolderDefault(h) ==
    /\ ~holder[h].made
    /\ HolderCall(Holder_default(source, holder, h))

\* A ScriptSource is allocated and handed to a new holder at once.
HolderNewSource(h) ==
    /\ ~holder[h].made
    /\ \E p \in SourcePtrs :
         /\ p = MallocSource
         /\ HolderCall(Holder_ctor([source EXCEPT ![p] = NewScriptSource], holder, h, p))

\* A new holder for a source that is already held.
HolderCtor(h, p) ==
    /\ ~holder[h].made
    /\ p \in HeldSources
    /\ HolderCall(Holder_ctor(source, holder, h, p))

\* reset(newss), newss being nullptr or a source that is held (by this holder
\* or another one).
HolderReset(h, newss) ==
    /\ holder[h].made
    /\ newss \in HeldSources \cup {nullptr}
    /\ HolderCall(Holder_reset(source, holder, h, newss))

\* The holder goes out of scope.
HolderDtor(h) ==
    /\ holder[h].made
    /\ HolderCall(Holder_dtor(source, holder, h))

HolderInit ==
    /\ source = [p \in SourcePtrs |-> FreedSource]
    /\ holder = [h \in Holders |-> NoHolder]

\* ------------------------------------------------- reference counts: claims

\* The units of the reference-count specification: one content, so that every
\* script after the first hits the table.
RefContents == {Content(<<>>, <<0>>, <<0, 0>>)}

RefNext ==
    \/ \E s \in DataScripts : CreateScript(s)
    \/ \E s \in DataScripts, c \in RefContents, oom \in BOOLEAN :
          CreateScriptData(s, c, oom)
    \/ \E s \in DataScripts, oom \in BOOLEAN : ShareScriptData(s, oom)
    \/ \E s \in DataScripts : FinalizeScript(s)
    \/ SweepScriptData
    \/ \E h \in Holders : HolderDefault(h)
    \/ \E h \in Holders : HolderNewSource(h)
    \/ \E h \in Holders, p \in SourcePtrs : HolderCtor(h, p)
    \/ \E h \in Holders, p \in SourcePtrs \cup {nullptr} : HolderReset(h, p)
    \/ \E h \in Holders : HolderDtor(h)

\* No count is decremented at zero and nothing touches a destroyed instance;
\* an instance exists exactly while its count is positive, and its count is
\* the number of its holders, so one whose holders all released is gone.
C9_State ==
    /\ ~refErr
    /\ \A p \in BlockPtrs :
         /\ block[p].live <=> block[p].refCount_ > 0
         /\ block[p].live <=> (Referrers(p) # {} \/ p \in table)
    /\ \A p \in SourcePtrs :
         /\ source[p].live <=> source[p].refs > 0
         /\ source[p].live <=> HoldersOf(p) # {}
         /\ source[p].refs = Cardinality(HoldersOf(p))

\* An instance is destroyed only by the step that takes its count from one
\* to zero.
C9_Step ==
    /\ \A p \in BlockPtrs :
         (block[p].live /\ ~block'[p].live) => block[p].refCount_ = 1
    /\ \A p \in SourcePtrs :
         (source[p].live /\ ~source'[p].live) => source[p].refs = 1

\* C9: a ScriptSource or SharedScriptData is destroyed exactly when its count
\* goes from one to zero: never while the count is positive, never
\* decremented at zero, never destroyed twice, and none whose holders have all
\* released is left.
C9_DestroyedExactlyAtZero == []C9_State /\ [][C9_Step]_vars

\* C9 witness: a sweep destroyed a block, and a source was destroyed too (the
\* allocator hands out the lowest free address, so the source at address 1
\* was allocated before the one at address 2 and is gone).
C9_Witness ==
    /\ dataOp.op = "sweep"
    /\ dataOp.freed # {}
    /\ ~source[1].live
    /\ source[2].live

\* ===================================================== ScriptSource text, pins

\* The string types a source's text can have.
Units == {"Utf8Unit", "char16_t"}

\* The lengths a source's text can have.
SourceLengths == 1..MaxSourceLen

\* The addresses of the character buffers: the uncompressed text held by
\* Uncompressed::string_, the compressed bytes held by Compressed::raw, and
\* the decompressed characters an AutoHoldEntry keeps for a pin, and the
\* BinAST data held by BinAST::string.
TextBuf == 1
RawBuf == 2
ChunkBuf == 3
BinASTBuf == 4

\* The addresses of the PinnedUnits objects: a pin's address is its depth in
\* the scopes that are open (pins are automatic objects).
PinPtrs == 1..MaxPins

\* struct Missing.
Missing == [tag |-> "Missing", unit |-> "none", buf |-> nullptr, length |-> 0]

\* class Uncompressed<Unit>: string_, and string_.length().
Uncompressed(unit, string_, length) ==
    [tag |-> "Uncompressed", unit |-> unit, buf |-> string_, length |-> length]

\* struct Compressed<Unit>: raw and uncompressedLength.
Compressed(unit, raw, uncompressedLength) ==
    [tag |-> "Compressed", unit |-> unit, buf |-> raw,
     length |-> uncompressedLength]

\* struct BinAST: string (builds with JS_BUILD_BINAST).
BinAST(string, length) ==
    [tag |-> "BinAST", unit |-> "none", buf |-> string, length |-> length]

\* An empty pendingCompressed_ (MaybeOneOf holding nothing).
NoPending == [tag |-> "Nothing", unit |-> "none", buf |-> nullptr, length |-> 0]

\* ScriptSource(): data(SourceType(Missing())), pinnedUnitsStack_(nullptr).
NewSourceText ==
    [data |-> Missing, pinnedUnitsStack_ |-> nullptr,
     pendingCompressed_ |-> NoPending]

\* hasUncompressedSource that takes everything but compressed text for
\* uncompressed text.
hasUncompressedSource_notCompressed(ss) == ss.data.tag # "Compressed"

\* hasUncompressedSource that takes any source with text for one with
\* uncompressed text.
hasUncompressedSource_anyText(ss) == ss.data.tag \in {"Uncompressed", "Compressed"}

\* ScriptSource::hasUncompressedSource.
hasUncompressedSource(ss) == ss.data.tag = "Uncompressed"

\* ScriptSource::hasCompressedSource.
hasCompressedSource(ss) == ss.data.tag = "Compressed"

\* ScriptSource::hasSourceText.
hasSourceText(ss) == hasUncompressedSource(ss) \/ hasCompressedSource(ss)

\* ScriptSource::length (UncompressedLengthMatcher); a missing source crashes.
length(ss) == ss.data.length

\* MOZ_ASSERT(hasSourceText() || hasBinASTSource()) of length.
length_assert(ss) == hasSourceText(ss) \/ ss.data.tag = "BinAST"

\* The source after a call, and whether the call crashed or failed an
\* assertion.
SourceOutcome(ss, crash) == [ss |-> ss, crash |-> crash]

\* ScriptSource::setSource(uncompressed): the text is recorded, on a source
\* that has none.
setSource(ss, unit, string_, len) ==
    IF ss.data.tag # "Missing" THEN SourceOutcome(ss, TRUE)
    ELSE SourceOutcome([ss EXCEPT !.data = Uncompressed(unit, string_, len)], FALSE)

\* ScriptSource::setBinASTSource(cx, buf, len): the canonical copy of the
\* BinAST data is recorded, on a source that has none.
setBinASTSource(ss, string, len) ==
    IF ss.data.tag # "Missing" THEN SourceOutcome(ss, TRUE)
    ELSE SourceOutcome([ss EXCEPT !.data = BinAST(string, len)], FALSE)

\* ScriptSource::setCompressedSource(compressed, sourceLength): with PinnedUnits
\* present the compressed text is parked in pendingCompressed_, otherwise it
\* replaces data.
setCompressedSource(ss, unit, compressed, sourceLength) ==
    IF ss.pinnedUnitsStack_ # nullptr
    THEN SourceOutcome(
             [ss EXCEPT !.pendingCompressed_ = Compressed(unit, compressed, sourceLength)],
             ss.pendingCompressed_ # NoPending)
    ELSE SourceOutcome(
             [ss EXCEPT !.data = Compressed(unit, compressed, sourceLength)], FALSE)

\* A matcher that replaces data at once, whatever pins there are.
SetCompressedSourceFromTask_match_unpinned(ss, compressed_) ==
    IF hasUncompressedSource(ss)
    THEN SourceOutcome(
             [ss EXCEPT !.data = Compressed(ss.data.unit, compressed_, length(ss))],
             FALSE)
    ELSE SourceOutcome(ss, TRUE)

\* A matcher that loses the compressed text.
SetCompressedSourceFromTask_match_dropped(ss, compressed_) ==
    SourceOutcome(ss, ~hasUncompressedSource(ss))

\* SetCompressedSourceFromTask::match: an uncompressed source takes the
\* compressed text with its own Unit and length; every other kind crashes.
SetCompressedSourceFromTask_match(ss, compressed_) ==
    IF hasUncompressedSource(ss)
    THEN LET out == setCompressedSource(ss, ss.data.unit, compressed_, length(ss))
         IN SourceOutcome(out.ss, out.crash \/ ~length_assert(ss))
    ELSE SourceOutcome(ss, TRUE)

\* movePendingCompressedSource that forgets the parked text.
movePendingCompressedSource_drops(ss) ==
    SourceOutcome([ss EXCEPT !.pendingCompressed_ = NoPending], FALSE)

\* ScriptSource::movePendingCompressedSource: a parked compressed text becomes
\* the source's data.
movePendingCompressedSource(ss) ==
    IF ss.pendingCompressed_ = NoPending THEN SourceOutcome(ss, FALSE)
    ELSE SourceOutcome(
             [ss EXCEPT !.data = ss.pendingCompressed_,
                        !.pendingCompressed_ = NoPending],
             \/ ~hasSourceText(ss)
             \/ ss.pendingCompressed_.length # length(ss)
             \/ ss.pendingCompressed_.unit # ss.data.unit)

\* units that yields characters of compressed text only.
units_compressedOnly(ss, oom) ==
    IF hasUncompressedSource(ss) \/ oom THEN nullptr ELSE ChunkBuf

\* PinnedUnitsBase(source): stack_ and prev_ are null.
PinnedUnitsBase == [stack_ |-> FALSE, prev_ |-> nullptr, units_ |-> nullptr]

\* ScriptSource::units for a pin: the uncompressed buffer itself, or
\* decompressed characters kept by the pin's holder (nullptr when they cannot be
\* allocated).
units(ss, oom) ==
    IF hasUncompressedSource(ss) THEN ss.data.buf
    ELSE IF oom THEN nullptr ELSE ChunkBuf

\* The source and the pins after a call on a pin.
PinOutcome(ss, ps, crash) == [ss |-> ss, pins |-> ps, crash |-> crash]

\* PinnedUnits(cx, source, holder, begin, len): a pin that got its units is
\* pushed on the source's stack of pins.
PinnedUnits_ctor(ss, ps, oom) ==
    LET this == Len(ps) + 1
        units_ == units(ss, oom)
    IN IF units_ = nullptr
       THEN PinOutcome(ss, Append(ps, PinnedUnitsBase), ~hasSourceText(ss))
       ELSE PinOutcome(
                [ss EXCEPT !.pinnedUnitsStack_ = this],
                Append(ps, [stack_ |-> TRUE, prev_ |-> ss.pinnedUnitsStack_,
                            units_ |-> units_]),
                ~hasSourceText(ss))

\* ~PinnedUnits(): a pin that got its units is popped, and the bottom pin
\* moves the parked compressed text into place.
PinnedUnits_dtor(ss, ps) ==
    LET this == Len(ps)
        pin == ps[this]
        rest == SubSeq(ps, 1, this - 1)
    IN IF pin.units_ = nullptr THEN PinOutcome(ss, rest, FALSE)
       ELSE LET popped == [ss EXCEPT !.pinnedUnitsStack_ = pin.prev_]
                out == IF pin.prev_ = nullptr
                       THEN movePendingCompressedSource(popped)
                       ELSE SourceOutcome(popped, FALSE)
            IN PinOutcome(out.ss, rest,
                          out.crash \/ ss.pinnedUnitsStack_ # this)

\* A compression task: what became of it, and the compressed text it holds.
Task(state, resultString_) == [state |-> state, resultString_ |-> resultString_]

\* The last operation on the source's text.
SourceOp(op, applied, parked) == [op |-> op, applied |-> applied, parked |-> parked]

\* The pins that hold units.
Outstanding(ps) == {i \in 1..Len(ps) : ps[i].units_ # nullptr}

\* The character buffers that are allocated: each is owned by the source's
\* data, by the parked compressed text, by the task's result, or by the holder
\* of a pin on a compressed source.
LiveBufs ==
    ({sourceText.data.buf, sourceText.pendingCompressed_.buf, task.resultString_}
        \cup {pins[i].units_ :
                 i \in {j \in Outstanding(pins) : pins[j].units_ = ChunkBuf}})
    \ {nullptr}

\* One call on the source: the source becomes the outcome's.
SourceCall(op, out) ==
    /\ sourceText' = out.ss
    /\ srcCrash' = (srcCrash \/ out.crash)
    /\ srcOp' = SourceOp(op,
                         hasUncompressedSource(sourceText) /\ hasCompressedSource(out.ss),
                         sourceText.pendingCompressed_ = NoPending
                             /\ out.ss.pendingCompressed_ # NoPending)
    /\ UNCHANGED notSource

\* The frontend records the text it compiled.
SetSource(unit, len) ==
    /\ sourceText.data = Missing
    /\ SourceCall("setSource", setSource(sourceText, unit, TextBuf, len))
    /\ UNCHANGED <<pins, task, pendingTasks>>

\* The frontend records the BinAST data it decoded.
SetBinASTSource(len) ==
    /\ sourceText.data = Missing
    /\ SourceCall("setBinASTSource", setBinASTSource(sourceText, BinASTBuf, len))
    /\ UNCHANGED <<pins, task, pendingTasks>>

\* ScriptSource::tryCompressOffThread: nothing is queued for a source without
\* uncompressed text, nor when the text is too short to gain from it or no
\* helper thread can take the task (worthwhile is false).
tryCompressOffThread(ss, worthwhile) ==
    IF ~hasUncompressedSource(ss) THEN "skipped"
    ELSE IF ~worthwhile THEN "skipped"
    ELSE "scheduled"

\* The source has no compression task that is yet to be completed.
NoTaskOutstanding(t, n) == t.state \in {"none", "finished"} /\ n = 0

\* A caller asks for the text to be compressed, whatever became of earlier
\* requests: the request is skipped, or a task is queued, behind the tasks of
\* this source that are yet to be completed.
TryCompressOffThread(worthwhile) ==
    /\ IF tryCompressOffThread(sourceText, worthwhile) = "skipped"
       THEN UNCHANGED <<task, pendingTasks>>
       ELSE IF NoTaskOutstanding(task, pendingTasks)
       THEN task' = Task("queued", nullptr) /\ UNCHANGED pendingTasks
       ELSE /\ pendingTasks < MaxPendingTasks
            /\ pendingTasks' = pendingTasks + 1
            /\ UNCHANGED task
    /\ SourceCall("tryCompressOffThread", SourceOutcome(sourceText, FALSE))
    /\ UNCHANGED pins

\* The helper threads take the source's next task once the one before it is
\* completed.
StartNextTask ==
    /\ task.state = "finished"
    /\ pendingTasks > 0
    /\ task' = Task("queued", nullptr)
    /\ pendingTasks' = pendingTasks - 1
    /\ UNCHANGED <<sourceText, pins, srcOp, srcCrash, notSource>>

\* The source and its task after the helper thread's work.
WorkOutcome(ss, t) == [ss |-> ss, task |-> t]

\* A helper thread that installs the compressed text itself.
performTaskWork_installs(ss, ok) ==
    IF ok
    THEN WorkOutcome(SetCompressedSourceFromTask_match_unpinned(ss, RawBuf).ss,
                     Task("finished", nullptr))
    ELSE WorkOutcome(ss, Task("failed", nullptr))

\* ScriptSource::performTaskWork on a helper thread: the text is compressed
\* into the task's result, or the task gives up; the source is only read.
performTaskWork(ss, ok) ==
    WorkOutcome(ss, IF ok THEN Task("done", RawBuf) ELSE Task("failed", nullptr))

\* A helper thread runs the queued task.
PerformTaskWork(ok) ==
    /\ task.state = "queued"
    /\ LET out == performTaskWork(sourceText, ok)
       IN /\ task' = out.task
          /\ SourceCall("performTaskWork", SourceOutcome(out.ss, FALSE))
    /\ UNCHANGED <<pins, pendingTasks>>

\* The outcome of the completion of task t: setCompressedSourceFromTask hands
\* the result of a task that is done to the matcher; a task that failed has
\* no result to hand over.
completeTask(ss, t) ==
    IF t.state = "done" THEN SetCompressedSourceFromTask_match(ss, t.resultString_)
    ELSE SourceOutcome(ss, FALSE)

\* The main thread, at a garbage collection, completes the finished task. A
\* matcher that reaches MOZ_CRASH ends the process there: the step has no
\* next state.
CompleteTask ==
    /\ task.state \in {"done", "failed"}
    /\ ~completeTask(sourceText, task).crash
    /\ task' = Task("finished", nullptr)
    /\ SourceCall("complete", completeTask(sourceText, task))
    /\ UNCHANGED <<pins, pendingTasks>>

\* A user of the text pins it in a new scope.
Pin(oom) ==
    /\ Len(pins) < MaxPins
    /\ hasSourceText(sourceText)
    /\ LET out == PinnedUnits_ctor(sourceText, pins, oom)
       IN /\ pins' = out.pins
          /\ SourceCall("pin", SourceOutcome(out.ss, out.crash))
    /\ UNCHANGED <<task, pendingTasks>>

\* The innermost pin goes out of scope.
Unpin ==
    /\ pins # <<>>
    /\ LET out == PinnedUnits_dtor(sourceText, pins)
       IN /\ pins' = out.pins
          /\ SourceCall("unpin", SourceOutcome(out.ss, out.crash))
    /\ UNCHANGED <<task, pendingTasks>>

SourceInit ==
    /\ sourceText = NewSourceText
    /\ pins = <<>>
    /\ task = Task("none", nullptr)
    /\ srcOp = SourceOp("none", FALSE, FALSE)
    /\ srcCrash = FALSE
    /\ pendingTasks = 0

SourceNext ==
    \/ \E unit \in Units, len \in SourceLengths : SetSource(unit, len)
    \/ \E worthwhile \in BOOLEAN : TryCompressOffThread(worthwhile)
    \/ StartNextTask
    \/ \E ok \in BOOLEAN : PerformTaskWork(ok)
    \/ CompleteTask
    \/ \E oom \in BOOLEAN : Pin(oom)
    \/ Unpin

\* The source of a build with JS_BUILD_BINAST, which can hold BinAST data in
\* place of text.
BinASTNext ==
    \/ SourceNext
    \/ \E len \in SourceLengths : SetBinASTSource(len)

\* ------------------------------------------------------ source text: claims

\* C4: Pin safety. While a pin on the uncompressed text is outstanding, the
\* buffer its pointer refers to stays allocated and stays the source's data,
\* also when the compression task completes meanwhile; the source's data does
\* not change in any step that leaves a pin outstanding; no call crashes; and
\* a pin taken once the compressed text is in place does not point into the
\* uncompressed buffer.
C4_State ==
    /\ ~srcCrash
    /\ \A i \in Outstanding(pins) :
         /\ pins[i].units_ \in LiveBufs
         /\ pins[i].units_ = TextBuf =>
              (hasUncompressedSource(sourceText) /\ sourceText.data.buf = TextBuf)
         /\ pins[i].units_ = ChunkBuf => hasCompressedSource(sourceText)

C4_Step ==
    /\ (Outstanding(pins) # {} /\ Outstanding(pins') # {}) =>
           sourceText'.data = sourceText.data
    /\ \A i \in 1..Len(pins) : i <= Len(pins') => pins'[i] = pins[i]
    /\ (srcOp'.op = "pin" /\ Len(pins') > Len(pins)
            /\ hasCompressedSource(sourceText)) =>
           pins'[Len(pins')].units_ \in {nullptr, ChunkBuf}

C4_PinSafety == []C4_State /\ [][C4_Step]_vars

\* C4 witness: the compression task completed while a pin on the uncompressed
\* text was outstanding.
C4_Witness ==
    /\ srcOp.op = "complete"
    /\ srcOp.parked
    /\ \E i \in Outstanding(pins) : pins[i].units_ = TextBuf

\* The source's data went from uncompressed to compressed in this step.
Applied == hasUncompressedSource(sourceText) /\ hasCompressedSource(sourceText')

\* The innermost pin is released in this step.
Released == srcOp'.op = "unpin" /\ Len(pins') = Len(pins) - 1

\* C5: Deferred application. A compression result that arrives while pins are
\* outstanding is parked and the data left alone; the parked result is
\* applied exactly in the step that releases the only pin still outstanding
\* (the first one taken), never at the release of another pin, and never
\* while a pin is outstanding.
C5_State ==
    sourceText.pendingCompressed_ # NoPending =>
        (Outstanding(pins) # {} /\ hasUncompressedSource(sourceText))

C5_Step ==
    /\ (task.state = "done" /\ task'.state = "finished" /\ Outstanding(pins) # {}) =>
           /\ sourceText'.data = sourceText.data
           /\ sourceText'.pendingCompressed_ =
                  Compressed(sourceText.data.unit, task.resultString_,
                             sourceText.data.length)
    /\ Applied =>
           /\ Outstanding(pins') = {}
           /\ \/ Outstanding(pins) = {} /\ task.state = "done" /\ task'.state = "finished"
              \/ /\ Released
                 /\ Outstanding(pins) = {Len(pins)}
                 /\ sourceText.pendingCompressed_ # NoPending
                 /\ sourceText'.data = sourceText.pendingCompressed_
    /\ (Released /\ Outstanding(pins) # {Len(pins)}) =>
           /\ sourceText'.data = sourceText.data
           /\ sourceText'.pendingCompressed_ = sourceText.pendingCompressed_
    /\ (Released /\ Outstanding(pins) = {Len(pins)}
            /\ sourceText.pendingCompressed_ # NoPending) =>
           /\ Applied
           /\ sourceText'.pendingCompressed_ = NoPending

C5_DeferredApplication == []C5_State /\ [][C5_Step]_vars

\* C5 witness: the release of the last pin outstanding has just applied a
\* result that had arrived, and was parked, while the source was pinned.
C5_Witness ==
    /\ srcOp.op = "unpin"
    /\ srcOp.applied
    /\ pins = <<>>
    /\ hasCompressedSource(sourceText)

\* The place of a variant of SourceType in the life of a source's text.
SourceRank(data) ==
    IF data.tag = "Missing" THEN 0
    ELSE IF data.tag = "Uncompressed" THEN 1
    ELSE 2

\* C20: the text of a source only moves forward. Its data is at every moment
\* exactly one of Missing, Uncompressed and Compressed, well formed; it changes
\* only from Missing to Uncompressed and from Uncompressed to Compressed, the
\* latter keeping the Unit and the length of the text; so it is populated at
\* most once, never returns to Missing and never goes from Compressed back to
\* Uncompressed.
C20_State ==
    /\ sourceText.data.tag \in {"Missing", "Uncompressed", "Compressed"}
    /\ sourceText.data.tag = "Missing" => sourceText.data = Missing
    /\ sourceText.data.tag # "Missing" =>
           /\ sourceText.data.unit \in Units
           /\ sourceText.data.buf # nullptr
           /\ sourceText.data.length \in SourceLengths
    /\ hasSourceText(sourceText) <=> sourceText.data.tag # "Missing"
    /\ ~(hasUncompressedSource(sourceText) /\ hasCompressedSource(sourceText))

C20_Step ==
    sourceText'.data # sourceText.data =>
        /\ SourceRank(sourceText'.data) = SourceRank(sourceText.data) + 1
        /\ sourceText.data.tag = "Uncompressed" =>
               /\ sourceText'.data.unit = sourceText.data.unit
               /\ sourceText'.data.length = sourceText.data.length

C20_TextMovesForward == []C20_State /\ [][C20_Step]_vars

\* C20 witness: the text of a source, set as char16_t, has been replaced by
\* its compressed form when the task completed.
C20_Witness ==
    /\ srcOp.op = "complete"
    /\ srcOp.applied
    /\ sourceText.data.tag = "Compressed"
    /\ sourceText.data.unit = "char16_t"
    /\ sourceText.data.buf = RawBuf

\* A compression task of the source is in flight: queued, or done and not yet
\* handed to the source.
TaskInFlight(t) == t.state \in {"queued", "done"}

\* The data a source can hold when a result reaches the matcher.
SourceTypes ==
    {Missing, BinAST(BinASTBuf, MaxSourceLen)}
        \cup {Uncompressed(u, TextBuf, n) : u \in Units, n \in SourceLengths}
        \cup {Compressed(u, RawBuf, n) : u \in Units, n \in SourceLengths}

\* A call of tryCompressOffThread was made in this step.
Requested == srcOp'.op = "tryCompressOffThread" /\ srcOp' # srcOp

\* The main thread handed a result to the matcher in this step.
Completed ==
    /\ task.state = "done"
    /\ srcOp'.op = "complete"
    /\ task'.state = "finished"

\* C21: a request for compression on a source whose data is compressed text,
\* BinAST data or missing is skipped and queues no task, so tasks exist only
\* for a source with text. A result is applied or parked only by the matcher's
\* arm for uncompressed text: the data becomes compressed only from
\* uncompressed text of the same Unit and length, and a text is parked only
\* in a source with uncompressed text. A result that reaches a source whose
\* data is not uncompressed text, or that already has a parked text, is not
\* applied: the matcher crashes, on data that is not uncompressed text with
\* the source as it was, and the completion has no next state. The matcher,
\* applied to every kind of data, writes uncompressed text only.
C21_State ==
    /\ ~srcCrash
    /\ (task.state # "none" \/ pendingTasks > 0) => hasSourceText(sourceText)
    /\ sourceText.pendingCompressed_ # NoPending => sourceText.data.tag = "Uncompressed"
    /\ (task.state = "done" /\ (sourceText.data.tag # "Uncompressed"
                                    \/ sourceText.pendingCompressed_ # NoPending)) =>
           /\ completeTask(sourceText, task).crash
           /\ sourceText.data.tag # "Uncompressed" =>
                  completeTask(sourceText, task).ss = sourceText
           /\ ~ENABLED CompleteTask
    /\ \A d \in SourceTypes :
         LET ss == [sourceText EXCEPT !.data = d, !.pendingCompressed_ = NoPending]
             out == SetCompressedSourceFromTask_match(ss, RawBuf)
         IN IF d.tag = "Uncompressed"
            THEN /\ ~out.crash
                 /\ Compressed(d.unit, RawBuf, d.length)
                        \in {out.ss.data, out.ss.pendingCompressed_}
            ELSE out = SourceOutcome(ss, TRUE)

C21_Step ==
    /\ (Requested /\ sourceText.data.tag # "Uncompressed") =>
           /\ task' = task
           /\ pendingTasks' = pendingTasks
           /\ sourceText' = sourceText
    /\ (pendingTasks' > pendingTasks
            \/ (NoTaskOutstanding(task, pendingTasks) /\ TaskInFlight(task'))) =>
           /\ srcOp'.op = "tryCompressOffThread"
           /\ sourceText.data.tag = "Uncompressed"
    /\ sourceText'.data # sourceText.data =>
           \/ sourceText.data = Missing
           \/ /\ sourceText.data.tag = "Uncompressed"
              /\ sourceText'.data =
                     Compressed(sourceText.data.unit, RawBuf, sourceText.data.length)
              /\ \/ Completed /\ task'.state = "finished"
                 \/ sourceText.pendingCompressed_ = sourceText'.data
    /\ (sourceText'.pendingCompressed_ # sourceText.pendingCompressed_
            /\ sourceText'.pendingCompressed_ # NoPending) =>
           /\ Completed
           /\ sourceText.data.tag = "Uncompressed"
           /\ sourceText'.data = sourceText.data
    /\ (task.state = "done" /\ task'.state = "finished") =>
           /\ sourceText.data.tag = "Uncompressed"
           /\ sourceText.pendingCompressed_ = NoPending

C21_TaskOnlyForUncompressed == []C21_State /\ [][C21_Step]_vars

\* C21 witness: a request on a source whose text is already compressed has
\* just been skipped; the task that compressed it is the last one queued.
C21_Witness ==
    /\ srcOp.op = "tryCompressOffThread"
    /\ sourceText.data.tag = "Compressed"
    /\ task.state = "finished"
    /\ pendingTasks = 0
    /\ pins = <<>>

\* A request on a source with BinAST data was skipped.
C21_BinASTSkipped ==
    /\ srcOp.op = "tryCompressOffThread"
    /\ sourceText.data.tag = "BinAST"
    /\ task.state = "none"

\* The result of a second task is ready for a source that the first task's
\* result has compressed: its completion crashes.
C21_CrashOnCompressed ==
    /\ task = Task("done", RawBuf)
    /\ sourceText.data.tag = "Compressed"
    /\ completeTask(sourceText, task) = SourceOutcome(sourceText, TRUE)

\* The result of a second task is ready for a pinned source in which the
\* first task's result is parked: its completion crashes.
C21_CrashOnParked ==
    /\ task = Task("done", RawBuf)
    /\ sourceText.data.tag = "Uncompressed"
    /\ sourceText.pendingCompressed_ # NoPending
    /\ completeTask(sourceText, task).crash

\* A compressed text is parked in the source.
Parked == sourceText.pendingCompressed_ # NoPending

\* The source's data is the compressed text and nothing is parked.
CompressedInPlace ==
    /\ sourceText.data.tag = "Compressed"
    /\ sourceText.pendingCompressed_ = NoPending

\* C36: a parked compressed text is never lost. A text is parked only while a
\* pin holds units; the step that empties pendingCompressed_ makes the parked
\* text the source's data; and in every behaviour in which the pins in scope
\* are released again and again, a parked text leads to a source whose data
\* is compressed with nothing parked.
C36_CompletedCompressionNotLost ==
    /\ [](Parked => Outstanding(pins) # {})
    /\ [][(Parked /\ ~Parked') =>
             /\ sourceText'.data = sourceText.pendingCompressed_
             /\ sourceText'.data.tag = "Compressed"
             /\ Outstanding(pins') = {}]_vars
    /\ ([]<>(Outstanding(pins) = {})) => (Parked ~> CompressedInPlace)

\* C36 witness: the last pin went out of scope and moved the parked text
\* into place; the task is finished and nothing is parked.
C36_Witness ==
    /\ srcOp.op = "unpin"
    /\ srcOp.applied
    /\ task.state = "finished"
    /\ Outstanding(pins) = {}
    /\ sourceText.data.tag = "Compressed"
    /\ sourceText.data.buf = RawBuf
    /\ sourceText.pendingCompressed_ = NoPending

\* ============================================================ relazification

\* The fields of a JSScript that isRelazifiable reads, as JSScript's member
\* initializers leave them.
NewRelazifiableFields ==
    [selfHosted_ |-> FALSE, lazyScript |-> nullptr, hasInnerFunctions_ |-> FALSE,
     types_ |-> nullptr, isGenerator_ |-> FALSE, isAsync_ |-> FALSE,
     isDefaultClassConstructor_ |-> FALSE, ion |-> nullptr, baseline |-> nullptr,
     doNotRelazify_ |-> FALSE, scriptData_ |-> nullptr]

\* JSScript::selfHosted.
selfHosted(js) == js.selfHosted_

\* JSScript::isDefaultClassConstructor.
isDefaultClassConstructor(js) == js.isDefaultClassConstructor_

\* JSScript::isGenerator.
isGenerator(js) == js.isGenerator_

\* JSScript::isAsync.
isAsync(js) == js.isAsync_

\* JSScript::hasAnyIonScript.
hasAnyIonScript(js) == hasIonScript(js)

\* isRelazifiable without the test of the veto.
isRelazifiable_ignoresVeto(js) ==
    /\ selfHosted(js) \/ js.lazyScript # nullptr
    /\ ~js.hasInnerFunctions_
    /\ js.types_ = nullptr
    /\ ~isGenerator(js)
    /\ ~isAsync(js)
    /\ ~isDefaultClassConstructor(js)
    /\ ~hasBaselineScript(js)
    /\ ~hasAnyIonScript(js)

\* isRelazifiable that takes a script without a LazyScript for relazifiable.
isRelazifiable_noOrigin(js) ==
    /\ ~js.hasInnerFunctions_
    /\ js.types_ = nullptr
    /\ ~isGenerator(js)
    /\ ~isAsync(js)
    /\ ~isDefaultClassConstructor(js)
    /\ ~hasBaselineScript(js)
    /\ ~hasAnyIonScript(js)
    /\ ~js.doNotRelazify_

\* JSScript::isRelazifiable.
isRelazifiable(js) ==
    /\ selfHosted(js) \/ js.lazyScript # nullptr
    /\ ~js.hasInnerFunctions_
    /\ js.types_ = nullptr
    /\ ~isGenerator(js)
    /\ ~isAsync(js)
    /\ ~isDefaultClassConstructor(js)
    /\ ~hasBaselineScript(js)
    /\ ~hasAnyIonScript(js)
    /\ ~js.doNotRelazify_

\* MOZ_ASSERT(!isGenerator()) of setGeneratorKind.
setGeneratorKind_assert(js) == ~isGenerator(js)

\* JSScript::setGeneratorKind: only as part of initialization, from not being
\* a generator.
setGeneratorKind(js, generator) == [js EXCEPT !.isGenerator_ = generator]

\* JSScript::setAsyncKind.
setAsyncKind(js, async) == [js EXCEPT !.isAsync_ = async]

\* JSScript::setIsDefaultClassConstructor.
setIsDefaultClassConstructor(js) == [js EXCEPT !.isDefaultClassConstructor_ = TRUE]

\* JSScript::maybeLazyScript.
maybeLazyScript(js) == js.lazyScript

\* JSScript::setLazyScript.
setLazyScript(js, lz) == [js EXCEPT !.lazyScript = lz]

\* JSScript::setHasInnerFunctions.
setHasInnerFunctions(js, b) == [js EXCEPT !.hasInnerFunctions_ = b]

\* JSScript::setDoNotRelazify.
setDoNotRelazify(js, b) == [js EXCEPT !.doNotRelazify_ = b]

\* =============================================================== LazyScript

LazyPtrs == 1..NumLazy
\* The addresses of the JSScripts compiled from LazyScripts: a function has one
\* script at a time.
LazyJSPtrs == 1..NumLazy

\* The address of the scope of an eagerly compiled top-level script.
GlobalScope == NumLazy + 1

\* The addresses of Scopes: the function scope of the script at address s has
\* address s.
ScopePtrs == LazyJSPtrs \cup {GlobalScope}

\* The function scope of the script at address s.
FunctionScope(s) == s

\* A gc::TenuredCell pointer: the address and the kind of cell it points to.
Cell(kind, addr) == [kind |-> kind, addr |-> addr]

\* A null cell pointer.
NullCell == Cell("null", nullptr)

\* Memory that holds no LazyScript.
NoLazy ==
    [live |-> FALSE, script_ |-> nullptr, enclosingLazyScriptOrScope_ |-> NullCell,
     numInnerFunctions |-> 0]

\* Memory that holds no JSScript.
NoLazyJS == [live |-> FALSE, js |-> nullptr]

\* LazyScript::maybeScript that forgets the forwarding pointer.
maybeScript_forgets(lz) == nullptr

\* LazyScript::maybeScript.
maybeScript(lz) == lz.script_

\* LazyScript::hasScript.
hasScript(lz) == lz.script_ # nullptr

\* hasEnclosingScope that never finds one.
hasEnclosingScope_never(lz) == FALSE

\* hasEnclosingScope that takes any non-null cell for a scope.
hasEnclosingScope_anyCell(lz) == lz.enclosingLazyScriptOrScope_.addr # nullptr

\* LazyScript::hasEnclosingScope.
hasEnclosingScope(lz) ==
    /\ lz.enclosingLazyScriptOrScope_.addr # nullptr
    /\ lz.enclosingLazyScriptOrScope_.kind = "Scope"

\* hasEnclosingLazyScript that never finds one.
hasEnclosingLazyScript_never(lz) == FALSE

\* LazyScript::hasEnclosingLazyScript.
hasEnclosingLazyScript(lz) ==
    /\ lz.enclosingLazyScriptOrScope_.addr # nullptr
    /\ lz.enclosingLazyScriptOrScope_.kind = "LazyScript"

\* enclosingScriptHasEverBeenCompiled that also counts an enclosing LazyScript.
enclosingScriptHasEverBeenCompiled_anyCell(lz) ==
    lz.enclosingLazyScriptOrScope_.addr # nullptr

\* LazyScript::enclosingScriptHasEverBeenCompiled.
enclosingScriptHasEverBeenCompiled(lz) == hasEnclosingScope(lz)

\* WeakRef<JSScript*> script_ that the collector would mark through.
script_Marks_strong(lz) == {lz.script_} \ {nullptr}

\* WeakRef<JSScript*> script_: the scripts the collector marks through the
\* field (none: the pointer is weak).
script_Marks(lz) == {}

\* The rank of a LazyScript's enclosing cell: uninitialized, enclosing
\* LazyScript, enclosing Scope.
EnclosingRank(lz) ==
    IF lz.enclosingLazyScriptOrScope_.addr = nullptr THEN 0
    ELSE IF lz.enclosingLazyScriptOrScope_.kind = "LazyScript" THEN 1
    ELSE 2

\* The LazyScript after a call, and the call's result.
LazyOutcome(lz, result) == [lz |-> lz, result |-> result]

\* LazyScript::Create: no script, no enclosing cell.
LazyScript_Create == [NoLazy EXCEPT !.live = TRUE]

\* LazyScript::CreateForXDR with a null script: the enclosing scope is set
\* when one is given.
LazyScript_CreateForXDR(enclosingScope) ==
    [LazyScript_Create EXCEPT
        !.enclosingLazyScriptOrScope_ =
            IF enclosingScope = nullptr THEN NullCell
            ELSE Cell("Scope", enclosingScope)]

\* LazyScript::initScript: the forwarding pointer is set, once.
initScript(lz, script) ==
    IF script = nullptr \/ lz.script_ # nullptr
    THEN LazyOutcome(lz, "AssertionFailure")
    ELSE LazyOutcome([lz EXCEPT !.script_ = script], "ok")

\* LazyScript::setEnclosingLazyScript: it cannot be called twice, and not once
\* the enclosing scope is set.
setEnclosingLazyScript(lz, enclosingLazyScript) ==
    IF \/ enclosingLazyScript = nullptr
       \/ hasEnclosingLazyScript(lz)
       \/ hasEnclosingScope(lz)
    THEN LazyOutcome(lz, "AssertionFailure")
    ELSE LazyOutcome(
             [lz EXCEPT !.enclosingLazyScriptOrScope_ =
                            Cell("LazyScript", enclosingLazyScript)], "ok")

\* LazyScript::setEnclosingScope: it cannot be called twice.
setEnclosingScope(lz, enclosingScope) ==
    IF enclosingScope = nullptr \/ hasEnclosingScope(lz)
    THEN LazyOutcome(lz, "AssertionFailure")
    ELSE LazyOutcome(
             [lz EXCEPT !.enclosingLazyScriptOrScope_ =
                            Cell("Scope", enclosingScope)], "ok")

\* The script the compiler emits for the function of a LazyScript: it keeps
\* the LazyScript for relazification when it has no inner functions.
CompiledFrom(lz, l) ==
    IF lz.numInnerFunctions = 0
    THEN setLazyScript(NewRelazifiableFields, l)
    ELSE setHasInnerFunctions(NewRelazifiableFields, TRUE)

\* The LazyScripts from l outwards along the enclosing LazyScripts, at most n.
RECURSIVE EnclosingChain(_, _, _)
EnclosingChain(heap, l, n) ==
    IF n = 0 \/ ~hasEnclosingLazyScript(heap[l]) THEN {l}
    ELSE {l} \cup EnclosingChain(heap, heap[l].enclosingLazyScriptOrScope_.addr, n - 1)

\* The last operation on LazyScripts.
LazyOp(op, l, result, compiled, preRank) ==
    [op |-> op, l |-> l, result |-> result, compiled |-> compiled,
     preRank |-> preRank]

\* The allocator of JSScripts: the lowest free address, nullptr when none.
MallocLazyJS ==
    IF \A s \in LazyJSPtrs : scriptHeap[s].live THEN nullptr
    ELSE CHOOSE s \in LazyJSPtrs :
           ~scriptHeap[s].live /\ \A t \in LazyJSPtrs : ~scriptHeap[t].live => s <= t

\* The parser meets a function it does not compile: LazyScript::Create.
LazyCreate(l) ==
    /\ ~lazyHeap[l].live
    /\ lazyHeap' = [lazyHeap EXCEPT ![l] = LazyScript_Create]
    /\ lazyOp' = LazyOp("Create", l, "ok", FALSE, 0)
    /\ UNCHANGED <<funScript, scriptHeap, compiles>>
    /\ UNCHANGED notLazy

\* A LazyScript is decoded: LazyScript::CreateForXDR, with the enclosing scope
\* or without.
LazyCreateForXDR(l, enclosingScope) ==
    /\ ~lazyHeap[l].live
    /\ lazyHeap' = [lazyHeap EXCEPT ![l] = LazyScript_CreateForXDR(enclosingScope)]
    /\ lazyOp' = LazyOp("CreateForXDR", l, "ok", FALSE, 0)
    /\ UNCHANGED <<funScript, scriptHeap, compiles>>
    /\ UNCHANGED notLazy

\* The function of l is put into the inner functions of the LazyScript e, and
\* l is linked to e.
SetEnclosingLazyScript(l, e) ==
    /\ lazyHeap[l].live
    /\ lazyHeap[e].live
    /\ l \notin EnclosingChain(lazyHeap, e, NumLazy)
    /\ LET out == setEnclosingLazyScript(lazyHeap[l], e)
       IN /\ lazyHeap' =
                 IF out.result = "ok"
                 THEN [lazyHeap EXCEPT
                          ![l] = out.lz,
                          ![e] = [@ EXCEPT !.numInnerFunctions = @ + 1]]
                 ELSE lazyHeap
          /\ lazyOp' = LazyOp("setEnclosingLazyScript", l, out.result, FALSE,
                              EnclosingRank(lazyHeap[l]))
    /\ UNCHANGED <<funScript, scriptHeap, compiles>>
    /\ UNCHANGED notLazy

\* The enclosing script of l, compiled eagerly, is finished: l gets its
\* enclosing scope.
SetEnclosingScope(l, sc) ==
    /\ lazyHeap[l].live
    /\ LET out == setEnclosingScope(lazyHeap[l], sc)
       IN /\ lazyHeap' = [lazyHeap EXCEPT ![l] = out.lz]
          /\ lazyOp' = LazyOp("setEnclosingScope", l, out.result, FALSE,
                              EnclosingRank(lazyHeap[l]))
    /\ UNCHANGED <<funScript, scriptHeap, compiles>>
    /\ UNCHANGED notLazy

\* The function of l is called. A function that has its script runs it; a lazy
\* function is delazified: the script the LazyScript forwards to is taken, or
\* the function is compiled, the LazyScript forwards to the new script, and
\* the LazyScripts nested in l get the new script's scope.
CallFunction(l) ==
    /\ lazyHeap[l].live
    /\ enclosingScriptHasEverBeenCompiled(lazyHeap[l])
    /\ IF funScript[l] # nullptr
       THEN /\ lazyOp' = LazyOp("call", l, "ok", FALSE, EnclosingRank(lazyHeap[l]))
            /\ UNCHANGED <<lazyHeap, funScript, scriptHeap, compiles>>
       ELSE IF hasScript(lazyHeap[l])
       THEN /\ funScript' = [funScript EXCEPT ![l] = maybeScript(lazyHeap[l])]
            /\ lazyOp' = LazyOp("delazify", l, "ok", FALSE, EnclosingRank(lazyHeap[l]))
            /\ UNCHANGED <<lazyHeap, scriptHeap, compiles>>
       ELSE /\ compiles < MaxCompiles
            /\ MallocLazyJS # nullptr
            /\ LET s == MallocLazyJS
                   out == initScript(lazyHeap[l], s)
               IN /\ scriptHeap' =
                         [scriptHeap EXCEPT
                             ![s] = [live |-> TRUE, js |-> CompiledFrom(lazyHeap[l], l)]]
                  /\ lazyHeap' =
                         [k \in LazyPtrs |->
                             IF k = l THEN out.lz
                             ELSE IF /\ hasEnclosingLazyScript(lazyHeap[k])
                                     /\ lazyHeap[k].enclosingLazyScriptOrScope_.addr = l
                                  THEN setEnclosingScope(lazyHeap[k], FunctionScope(s)).lz
                                  ELSE lazyHeap[k]]
                  /\ funScript' = [funScript EXCEPT ![l] = s]
                  /\ compiles' = compiles + 1
                  /\ lazyOp' = LazyOp("delazify", l, out.result, TRUE, EnclosingRank(lazyHeap[l]))
    /\ UNCHANGED notLazy

\* The function of l is relazified: it points to its LazyScript again, and its
\* script is left to the collector.
Relazify(l) ==
    /\ lazyHeap[l].live
    /\ funScript[l] # nullptr
    /\ IF isRelazifiable(scriptHeap[funScript[l]].js)
       THEN /\ funScript' = [funScript EXCEPT ![l] = nullptr]
            /\ lazyOp' = LazyOp("relazify", l, "ok", FALSE, EnclosingRank(lazyHeap[l]))
       ELSE /\ funScript' = funScript
            /\ lazyOp' = LazyOp("relazify", l, "NotEligible", FALSE, EnclosingRank(lazyHeap[l]))
    /\ UNCHANGED <<lazyHeap, scriptHeap, compiles>>
    /\ UNCHANGED notLazy

\* The scripts the collector marks: those of the functions, and what it marks
\* through the LazyScripts.
MarkedScripts ==
    ({funScript[l] : l \in LazyPtrs}
        \cup UNION {script_Marks(lazyHeap[l]) : l \in {k \in LazyPtrs : lazyHeap[k].live}})
    \ {nullptr}

\* The scripts a collection finalizes.
Collectable == {s \in LazyJSPtrs : scriptHeap[s].live /\ s \notin MarkedScripts}

\* A garbage collection: the unmarked scripts are finalized, and the sweep
\* clears the weak pointers to them.
LazyGC ==
    /\ Collectable # {}
    /\ scriptHeap' = [s \in LazyJSPtrs |->
                         IF s \in Collectable THEN NoLazyJS ELSE scriptHeap[s]]
    /\ lazyHeap' = [l \in LazyPtrs |->
                       IF lazyHeap[l].script_ \in Collectable
                       THEN [lazyHeap[l] EXCEPT !.script_ = nullptr]
                       ELSE lazyHeap[l]]
    /\ lazyOp' = LazyOp("gc", nullptr, "ok", FALSE, 0)
    /\ UNCHANGED <<funScript, compiles>>
    /\ UNCHANGED notLazy

LazyInit ==
    /\ lazyHeap = [l \in LazyPtrs |-> NoLazy]
    /\ funScript = [l \in LazyPtrs |-> nullptr]
    /\ scriptHeap = [s \in LazyJSPtrs |-> NoLazyJS]
    /\ compiles = 0
    /\ lazyOp = LazyOp("none", nullptr, "ok", FALSE, 0)

LazyNext ==
    \/ \E l \in LazyPtrs : LazyCreate(l)
    \/ \E l \in LazyPtrs, sc \in {nullptr, GlobalScope} : LazyCreateForXDR(l, sc)
    \/ \E l, e \in LazyPtrs : SetEnclosingLazyScript(l, e)
    \/ \E l \in LazyPtrs : SetEnclosingScope(l, GlobalScope)
    \/ \E l \in LazyPtrs : CallFunction(l)
    \/ \E l \in LazyPtrs : Relazify(l)
    \/ LazyGC

\* ------------------------------------------------------- LazyScript: claims

\* C11: Relazification idempotence. A delazification of a LazyScript whose
\* earlier script has not been collected returns that very script, compiles
\* nothing and allocates no script.
C11_Step ==
    \A l \in LazyPtrs :
        (/\ lazyOp'.op = "delazify"
         /\ lazyOp'.l = l
         /\ funScript[l] = nullptr
         /\ lazyHeap[l].script_ # nullptr) =>
            /\ scriptHeap[lazyHeap[l].script_].live
            /\ funScript'[l] = lazyHeap[l].script_
            /\ ~lazyOp'.compiled
            /\ compiles' = compiles
            /\ scriptHeap' = scriptHeap
            /\ lazyHeap' = lazyHeap

C11_DelazifyTwiceSameScript == [][C11_Step]_vars

\* C11 witness: a LazyScript was delazified a second time, after a
\* relazification and with its script still alive; one compilation was made.
C11_Witness ==
    /\ lazyOp.op = "delazify"
    /\ ~lazyOp.compiled
    /\ compiles = 1
    /\ funScript[lazyOp.l] # nullptr
    /\ funScript[lazyOp.l] = lazyHeap[lazyOp.l].script_

\* C12: The nested function of an eagerly compiled script. A LazyScript made
\* by Create reports enclosingScriptHasEverBeenCompiled() false, and keeps
\* doing so, uncompiled, until a setEnclosingScope on it succeeds, after which
\* the report is true; the first call of its function compiles it, once, and
\* a call of the function while it has its script compiles nothing and leaves
\* the function with that script.
C12_Step ==
    \A l \in LazyPtrs :
        /\ (lazyOp'.op = "Create" /\ lazyOp'.l = l /\ ~lazyHeap[l].live) =>
               ~enclosingScriptHasEverBeenCompiled(lazyHeap'[l])
        /\ (/\ lazyHeap[l].live
            /\ EnclosingRank(lazyHeap[l]) = 0
            /\ enclosingScriptHasEverBeenCompiled(lazyHeap'[l])) =>
               /\ lazyOp' = LazyOp("setEnclosingScope", l, "ok", FALSE, 0)
               /\ EnclosingRank(lazyHeap'[l]) = 2
        /\ (lazyHeap[l].live /\ EnclosingRank(lazyHeap[l]) = 0) =>
               /\ ~enclosingScriptHasEverBeenCompiled(lazyHeap[l])
               /\ funScript[l] = nullptr
               /\ funScript'[l] = nullptr
        /\ (/\ lazyOp'.op = "setEnclosingScope"
            /\ lazyOp'.l = l
            /\ lazyOp'.result = "ok"
            /\ lazyOp'.preRank = EnclosingRank(lazyHeap[l])) =>
               enclosingScriptHasEverBeenCompiled(lazyHeap'[l])
        /\ (funScript[l] = nullptr /\ funScript'[l] # nullptr
                /\ lazyHeap[l].script_ = nullptr) =>
               /\ lazyOp'.op = "delazify" /\ lazyOp'.l = l /\ lazyOp'.compiled
               /\ compiles' = compiles + 1
               /\ enclosingScriptHasEverBeenCompiled(lazyHeap[l])
        /\ (lazyOp'.op = "call" /\ lazyOp'.l = l /\ funScript[l] # nullptr) =>
               /\ compiles' = compiles
               /\ funScript' = funScript
               /\ scriptHeap' = scriptHeap
               /\ lazyHeap' = lazyHeap

C12_NestedFunctionScenario == [][C12_Step]_vars

\* C12 witness: the function of a LazyScript that has its enclosing scope was
\* called again while it had its script, after the one compilation made.
C12_Witness ==
    /\ lazyOp.op = "call"
    /\ compiles = 1
    /\ funScript[lazyOp.l] # nullptr
    /\ lazyHeap[lazyOp.l].script_ = funScript[lazyOp.l]
    /\ EnclosingRank(lazyHeap[lazyOp.l]) = 2

\* C13: Monotonic enclosing cell. The enclosing cell of a LazyScript changes
\* only by moving up: from uninitialized to an enclosing LazyScript or an
\* enclosing Scope, or from an enclosing LazyScript to an enclosing Scope. A
\* cell that holds a Scope never changes again.
C13_Step ==
    \A l \in LazyPtrs :
        (/\ lazyHeap[l].live
         /\ lazyHeap'[l].enclosingLazyScriptOrScope_
                # lazyHeap[l].enclosingLazyScriptOrScope_) =>
            /\ lazyHeap'[l].live
            /\ EnclosingRank(lazyHeap'[l]) > EnclosingRank(lazyHeap[l])

C13_EnclosingMovesForward == [][C13_Step]_vars

\* C13 witness: a LazyScript that held an enclosing LazyScript has just been
\* given its enclosing Scope.
C13_Witness ==
    /\ lazyOp.op = "setEnclosingScope"
    /\ lazyOp.result = "ok"
    /\ lazyOp.preRank = 1
    /\ EnclosingRank(lazyHeap[lazyOp.l]) = 2

\* C14 as stated: a call of setEnclosingScope or setEnclosingLazyScript on a
\* LazyScript on which the other one has succeeded fails an assertion.
C14_EitherAfterOtherAsserts ==
    /\ (lazyOp.op = "setEnclosingScope" /\ lazyOp.preRank = 1) =>
           lazyOp.result = "AssertionFailure"
    /\ (lazyOp.op = "setEnclosingLazyScript" /\ lazyOp.preRank = 2) =>
           lazyOp.result = "AssertionFailure"

\* C14: setEnclosingLazyScript succeeds only on an uninitialized cell and
\* fails an assertion after either setter has succeeded; setEnclosingScope
\* succeeds on an uninitialized cell and on one that holds an enclosing
\* LazyScript, and fails an assertion once a Scope is set. A successful call
\* raises the cell to the setter's kind, so each setter succeeds at most once
\* on a LazyScript.
C14_SettersOnce ==
    /\ lazyOp.op = "setEnclosingLazyScript" =>
           /\ lazyOp.result = (IF lazyOp.preRank = 0 THEN "ok" ELSE "AssertionFailure")
           /\ EnclosingRank(lazyHeap[lazyOp.l]) =
                  (IF lazyOp.result = "ok" THEN 1 ELSE lazyOp.preRank)
    /\ lazyOp.op = "setEnclosingScope" =>
           /\ lazyOp.result = (IF lazyOp.preRank = 2 THEN "AssertionFailure" ELSE "ok")
           /\ EnclosingRank(lazyHeap[lazyOp.l]) = 2

\* C14 witness: setEnclosingLazyScript was called on a LazyScript whose
\* enclosing Scope was set, and failed its assertion.
C14_Witness ==
    /\ lazyOp.op = "setEnclosingLazyScript"
    /\ lazyOp.preRank = 2
    /\ lazyOp.result = "AssertionFailure"

\* C15: enclosingScriptHasEverBeenCompiled() is true exactly when the
\* enclosing cell holds a Scope, false while it is uninitialized or holds an
\* enclosing LazyScript, and once true it stays true.
C15_State ==
    \A l \in LazyPtrs :
        lazyHeap[l].live =>
            (enclosingScriptHasEverBeenCompiled(lazyHeap[l])
                <=> (/\ lazyHeap[l].enclosingLazyScriptOrScope_.kind = "Scope"
                     /\ lazyHeap[l].enclosingLazyScriptOrScope_.addr \in ScopePtrs))

C15_Step ==
    \A l \in LazyPtrs :
        (lazyHeap[l].live /\ enclosingScriptHasEverBeenCompiled(lazyHeap[l])) =>
            (lazyHeap'[l].live /\ enclosingScriptHasEverBeenCompiled(lazyHeap'[l]))

C15_EverCompiledIffScope == []C15_State /\ [][C15_Step]_vars

\* C15 witness: a LazyScript decoded with its enclosing scope reports true,
\* beside a LazyScript whose cell holds no Scope and that reports false.
C15_Witness ==
    /\ lazyOp.op = "CreateForXDR"
    /\ enclosingScriptHasEverBeenCompiled(lazyHeap[lazyOp.l])
    /\ \E k \in LazyPtrs :
         /\ lazyHeap[k].live
         /\ EnclosingRank(lazyHeap[k]) < 2
         /\ ~enclosingScriptHasEverBeenCompiled(lazyHeap[k])

\* C16: Weak forwarding pointer. A script that no function has is finalized
\* by the next collection, whether or not a LazyScript forwards to it; the
\* forwarding pointer of a live LazyScript is null or points to a live
\* script, a script dies only in a collection and no forwarding pointer to it
\* is left; and a delazification of a LazyScript whose script was collected
\* compiles a new script.
C16_State ==
    /\ \A l \in LazyPtrs :
         (lazyHeap[l].live /\ lazyHeap[l].script_ # nullptr) =>
             /\ scriptHeap[lazyHeap[l].script_].live
             /\ scriptHeap[lazyHeap[l].script_].js.lazyScript \in {l, nullptr}
    /\ \A s \in LazyJSPtrs :
         (scriptHeap[s].live /\ \A l \in LazyPtrs : funScript[l] # s) =>
             s \in Collectable

C16_Step ==
    /\ lazyOp'.op = "gc" => \A s \in Collectable : ~scriptHeap'[s].live
    /\ \A s \in LazyJSPtrs :
         (scriptHeap[s].live /\ ~scriptHeap'[s].live) =>
             /\ lazyOp'.op = "gc"
             /\ \A l \in LazyPtrs : funScript[l] # s /\ lazyHeap'[l].script_ # s
    /\ \A l \in LazyPtrs :
         (/\ lazyOp'.op = "delazify"
          /\ lazyOp'.l = l
          /\ funScript[l] = nullptr
          /\ funScript'[l] # nullptr
          /\ lazyHeap[l].script_ = nullptr) =>
             /\ lazyOp'.compiled
             /\ ~scriptHeap[funScript'[l]].live
             /\ scriptHeap'[funScript'[l]].live
             /\ lazyHeap'[l].script_ = funScript'[l]
             /\ compiles' = compiles + 1

C16_WeakBackReference == []C16_State /\ [][C16_Step]_vars

\* C16 witness: the only LazyScript there is, whose script was collected, has
\* been delazified again and compiled a second time.
C16_Witness ==
    /\ lazyOp.op = "delazify"
    /\ lazyOp.compiled
    /\ compiles = 2
    /\ lazyHeap[lazyOp.l].script_ = funScript[lazyOp.l]
    /\ \A k \in LazyPtrs \ {lazyOp.l} : ~lazyHeap[k].live

\* ==================================================== relazifying one script

\* The script one function is compiled to, as JSScript::Create and the
\* emitter initialize it: the self-hosted bit from the compile options, the
\* kinds from the function box, the LazyScript the function was compiled from
\* (nullptr for a function compiled eagerly), the shared bytecode.
JSScript_Create(isSelfHosted, generator, async, defaultCtor, lz, data) ==
    LET js0 == [NewRelazifiableFields EXCEPT !.selfHosted_ = isSelfHosted,
                                             !.scriptData_ = data]
        js1 == setGeneratorKind(js0, generator)
        js2 == setAsyncKind(js1, async)
        js3 == IF defaultCtor THEN setIsDefaultClassConstructor(js2) ELSE js2
    IN setLazyScript(js3, lz)

\* JSScript::makeTypes: the persistent type information is attached.
makeTypes(js, typeScript) == [js EXCEPT !.types_ = typeScript]

\* The outcome of a relazification: the script afterwards, the result, and the
\* LazyScript the function is handed.
RelazifyOutcome(js, result, handle) ==
    [js |-> js, result |-> result, handle |-> handle]

\* relazify(): refused with NotEligible unless the script is relazifiable; the
\* function gets the script's LazyScript (none for a self-hosted function,
\* which is cloned again by name). The script is not written.
maybeRelazify(js) ==
    IF ~isRelazifiable(js) THEN RelazifyOutcome(js, "NotEligible", nullptr)
    ELSE RelazifyOutcome(js, "LazyScriptHandle", maybeLazyScript(js))

\* The last operation on the script: its name, the script it found, its
\* result, the LazyScript it returned.
RelazOp(op, pre, result, handle) ==
    [op |-> op, pre |-> pre, result |-> result, handle |-> handle]

\* The address of the LazyScript the function may have been compiled from, of
\* its TypeScript and of its bytecode.
TheLazyScript == 1
TheTypeScript == 1
TheScriptData == 1

\* A function is compiled, eagerly or from its LazyScript.
RelazCreate(isSelfHosted, generator, async, defaultCtor, lz) ==
    /\ relazFun = "none"
    /\ setGeneratorKind_assert(NewRelazifiableFields)
    /\ relazScript' = JSScript_Create(isSelfHosted, generator, async, defaultCtor,
                                   lz, TheScriptData)
    /\ relazFun' = "script"
    /\ relazOp' = RelazOp("Create", relazScript, "ok", nullptr)
    /\ UNCHANGED notRelaz

\* One call on the script of the function, which has it.
RelazCall(op, out) ==
    /\ relazFun = "script"
    /\ relazScript' = out.js
    /\ relazOp' = RelazOp(op, relazScript, out.result, nullptr)
    /\ UNCHANGED relazFun
    /\ UNCHANGED notRelaz

\* setHasInnerFunctions(b) on the script: the emitter records an inner
\* function, or a caller clears the bit.
RelazSetHasInnerFunctions(b) ==
    /\ relazFun = "script"
    /\ relazScript.hasInnerFunctions_ # b
    /\ RelazCall("setHasInnerFunctions",
                 Outcome(setHasInnerFunctions(relazScript, b), "ok"))

\* Type inference attaches the script's type information.
RelazMakeTypes ==
    /\ relazFun = "script"
    /\ relazScript.types_ = nullptr
    /\ RelazCall("makeTypes", Outcome(makeTypes(relazScript, TheTypeScript), "ok"))

\* A collection discards the script's type information.
RelazSweepTypes ==
    /\ relazFun = "script"
    /\ relazScript.types_ # nullptr
    /\ RelazCall("sweepTypes", Outcome(makeTypes(relazScript, nullptr), "ok"))

\* AutoDelazify holds the script (veto on), or drops it (veto off).
RelazSetDoNotRelazify(b) ==
    /\ relazFun = "script"
    /\ relazScript.doNotRelazify_ # b
    /\ RelazCall("setDoNotRelazify", Outcome(setDoNotRelazify(relazScript, b), "ok"))

\* The tiers of the script.
RelazAttachBaseline(h) == RelazCall("attachBaseline", attachBaseline(relazScript, h))
RelazMarkCompilingIon == RelazCall("markCompilingIon", markCompilingIon(relazScript))
RelazAttachIon(h) == RelazCall("attachIon", attachIon(relazScript, h))
RelazDetachOptimizing == RelazCall("detachOptimizing", detachOptimizing(relazScript))
RelazDisableIon == RelazCall("disableIon", disableIon(relazScript))

\* relazify() on the function's script.
Relazification ==
    /\ relazFun = "script"
    /\ LET out == maybeRelazify(relazScript)
       IN /\ relazScript' = out.js
          /\ relazFun' = IF out.result = "LazyScriptHandle" THEN "lazy" ELSE "script"
          /\ relazOp' = RelazOp("relazify", relazScript, out.result, out.handle)
    /\ UNCHANGED notRelaz

\* The relazified function is called again before its script was collected.
RelazDelazify ==
    /\ relazFun = "lazy"
    /\ relazFun' = "script"
    /\ relazOp' = RelazOp("delazify", relazScript, "ok", nullptr)
    /\ UNCHANGED relazScript
    /\ UNCHANGED notRelaz

RelazInit ==
    /\ relazScript = nullptr
    /\ relazFun = "none"
    /\ relazOp = RelazOp("none", nullptr, "ok", nullptr)

RelazNext ==
    \/ \E isSelfHosted, generator, async, defaultCtor \in BOOLEAN,
          lz \in {nullptr, TheLazyScript} :
         RelazCreate(isSelfHosted, generator, async, defaultCtor, lz)
    \/ \E b \in BOOLEAN : RelazSetHasInnerFunctions(b)
    \/ RelazMakeTypes
    \/ RelazSweepTypes
    \/ \E b \in BOOLEAN : RelazSetDoNotRelazify(b)
    \/ \E h \in BaselineHandles : RelazAttachBaseline(h)
    \/ RelazMarkCompilingIon
    \/ \E h \in IonHandles : RelazAttachIon(h)
    \/ RelazDetachOptimizing
    \/ RelazDisableIon
    \/ Relazification
    \/ RelazDelazify

\* ------------------------------------------------ relazification: claims

\* The conditions of relazification, read off the script's fields.
EligibleByFields(js) ==
    /\ js.selfHosted_ \/ js.lazyScript # nullptr
    /\ ~js.hasInnerFunctions_
    /\ js.types_ = nullptr
    /\ ~js.isGenerator_ /\ ~js.isAsync_
    /\ ~js.isDefaultClassConstructor_
    /\ js.baseline \in {nullptr, BASELINE_DISABLED_SCRIPT}
    /\ js.ion \in {nullptr, ION_DISABLED_SCRIPT, ION_COMPILING_SCRIPT, ION_PENDING_SCRIPT}
    /\ ~js.doNotRelazify_

\* C17: isRelazifiable is true exactly when the script is self-hosted or has
\* a LazyScript, has no inner functions recorded, has no type information
\* attached, is neither a generator nor async, is not a default class
\* constructor, has neither baseline nor optimizing code attached, and the
\* do-not-relazify veto is not set.
C17_RelazifiableIffAllConditions ==
    relazFun # "none" => (isRelazifiable(relazScript) <=> EligibleByFields(relazScript))

\* C17 witness: the veto, the only condition that failed, was lifted, and the
\* script is relazifiable.
C17_Witness ==
    /\ relazOp.op = "setDoNotRelazify"
    /\ relazOp.pre.doNotRelazify_
    /\ ~isRelazifiable(relazOp.pre)
    /\ isRelazifiable(relazScript)

\* C18: relazify() on a script that is not eligible returns NotEligible, and
\* leaves the script (bytecode reference, tier slots, flags) and the function
\* as they were; relazify() returns NotEligible or a LazyScript handle, never
\* anything else, and a handle only for an eligible script, which it does not
\* write either.
C18_RelazifyNotEligible ==
    relazOp.op = "relazify" =>
        /\ relazOp.result \in {"NotEligible", "LazyScriptHandle"}
        /\ relazScript = relazOp.pre
        /\ relazScript.scriptData_ = TheScriptData
        /\ ~EligibleByFields(relazOp.pre) =>
               /\ relazOp.result = "NotEligible"
               /\ relazOp.handle = nullptr
               /\ relazFun = "script"
        /\ relazOp.result = "LazyScriptHandle" =>
               /\ EligibleByFields(relazOp.pre)
               /\ relazOp.handle = relazOp.pre.lazyScript
               /\ relazFun = "lazy"

\* C18 witness: relazify() was refused on a script with baseline code attached
\* that meets every other condition.
C18_Witness ==
    /\ relazOp.op = "relazify"
    /\ relazOp.result = "NotEligible"
    /\ relazOp.pre.baseline \in BaselineHandles
    /\ EligibleByFields([relazOp.pre EXCEPT !.baseline = nullptr])
    /\ relazScript = relazOp.pre

\* static const uint32_t NumClosedOverBindingsBits, NumInnerFunctionsBits.
NumClosedOverBindingsBits == 20
NumInnerFunctionsBits == 20

\* ====================================================================== XDR

RECURSIVE Pow2(_)
Pow2(n) == IF n = 0 THEN 1 ELSE 2 * Pow2(n - 1)

\* struct PackedView: the bit-fields in the order they are declared, each with
\* the bit it starts at and its width. numInnerFunctions does not fit in what
\* numClosedOverBindings leaves of the first uint32_t and starts the second.
PackedViewLayout ==
    << <<"shouldDeclareArguments", 0, 1>>,
       <<"hasThisBinding", 1, 1>>,
       <<"isAsync", 2, 1>>,
       <<"isBinAST", 3, 1>>,
       <<"numClosedOverBindings", 4, NumClosedOverBindingsBits>>,
       <<"numInnerFunctions", 32, NumInnerFunctionsBits>>,
       <<"isGenerator", 52, 1>>,
       <<"strict", 53, 1>>,
       <<"bindingsAccessedDynamically", 54, 1>>,
       <<"hasDebuggerStatement", 55, 1>>,
       <<"hasDirectEval", 56, 1>>,
       <<"isLikelyConstructorWrapper", 57, 1>>,
       <<"hasBeenCloned", 58, 1>>,
       <<"treatAsRunOnce", 59, 1>>,
       <<"isDerivedClassConstructor", 60, 1>>,
       <<"needsHomeObject", 61, 1>>,
       <<"hasRest", 62, 1>>,
       <<"parseGoal", 63, 1>> >>

PackedViewFields == {PackedViewLayout[i][1] : i \in DOMAIN PackedViewLayout}

\* The one-bit fields of PackedView.
PackedViewFlags ==
    {PackedViewLayout[i][1] : i \in {j \in DOMAIN PackedViewLayout : PackedViewLayout[j][3] = 1}}

\* The place of a field in PackedView.
FieldOf(name) ==
    PackedViewLayout[CHOOSE i \in DOMAIN PackedViewLayout : PackedViewLayout[i][1] = name]

\* The 64 bits of memory whose eight bytes all hold fill.
FilledMemory(fill) == [k \in 0..63 |-> (fill \div Pow2(k % 8)) % 2]

\* What the 64 bits of the union's memory can hold before its fields are
\* written: the union is not initialized, so the bits are whatever the last
\* user of the memory, or the build, left there. The bits a field covers are
\* overwritten; the memories here are the ones filled with one byte, which
\* give the bits no field covers every value they can have.
UnionMemories == {FilledMemory(fill) : fill \in 0..255}

\* The number whose n bits, lowest first, are bits[lo], bits[lo + 1], ...
RECURSIVE BitsToNat(_, _, _)
BitsToNat(bits, lo, n) ==
    IF n = 0 THEN 0 ELSE bits[lo] + 2 * BitsToNat(bits, lo + 1, n - 1)

\* The 64 bits of the union's memory, which held mem, when every field is
\* written through p_: a bit that belongs to no field (bits 24..31, which
\* numClosedOverBindings leaves of the first uint32_t) keeps what the memory
\* held.
PackedViewBits(p, mem) ==
    [k \in 0..63 |->
        LET at == {i \in DOMAIN PackedViewLayout :
                      /\ PackedViewLayout[i][2] <= k
                      /\ k < PackedViewLayout[i][2] + PackedViewLayout[i][3]}
        IN IF at = {} THEN mem[k]
           ELSE LET f == PackedViewLayout[CHOOSE i \in at : TRUE]
                IN (p[f[1]] \div Pow2(k - f[2])) % 2]

\* A uint64_t as its eight bytes, lowest first.
Uint64OfBits(bits) == [j \in 1..8 |-> BitsToNat(bits, 8 * (j - 1), 8)]

\* The 64 bits of a uint64_t.
BitsOfUint64(v) == [k \in 0..63 |-> (v[(k \div 8) + 1] \div Pow2(k % 8)) % 2]

\* LazyScript::packedFields.
packedFields(lz) == lz.packedFields_

\* The union, in memory that held mem, written through p_ and read through
\* packedFields_.
PackedFieldsOf(p, mem) == Uint64OfBits(PackedViewBits(p, mem))

\* The union written through packedFields_ and read through p_.
PackedViewOf(packed) ==
    LET bits == BitsOfUint64(packed)
    IN [name \in PackedViewFields |->
           BitsToNat(bits, FieldOf(name)[2], FieldOf(name)[3])]

\* The source location of a function: the offsets and the position.
Span(toStringStart, begin, end, toStringEnd, lineno, column) ==
    [sourceStart_ |-> begin, sourceEnd_ |-> end,
     toStringStart_ |-> toStringStart, toStringEnd_ |-> toStringEnd,
     lineno_ |-> lineno, column_ |-> column]

NoSpan == Span(0, 0, 0, 0, 0, 0)

\* JSScript::setColumn(size_t column), the size_t as its eight bytes, lowest
\* first: column_ is a uint32_t and keeps the low four.
setColumn(script, column) ==
    [script EXCEPT !.span.column_ =
        column[1] + 256 * (column[2] + 256 * (column[3] + 256 * column[4]))]

\* The LazyScript constructor (through CreateRaw): the packed fields, the
\* source location with toStringEnd_ at the end of the source; no script, no
\* enclosing cell.
LazyScript_ctor(packed, begin, end, toStringStart, lineno, column) ==
    [packedFields_ |-> packed, script_ |-> nullptr,
     enclosingLazyScriptOrScope_ |-> NullCell,
     span |-> Span(toStringStart, begin, end, end, lineno, column)]

\* LazyScript::setToStringEnd.
setToStringEnd(lz, toStringEnd) ==
    IF ~(lz.span.toStringStart_ <= toStringEnd) THEN LazyOutcome(lz, "AssertionFailure")
    ELSE IF ~(lz.span.toStringEnd_ >= lz.span.sourceEnd_)
         THEN LazyOutcome(lz, "AssertionFailure")
    ELSE LazyOutcome([lz EXCEPT !.span.toStringEnd_ = toStringEnd], "ok")

\* XDRState::codeUint32, encoding: four bytes, lowest first.
codeUint32(v) == [i \in 1..4 |-> (v \div Pow2(8 * (i - 1))) % 256]

\* XDRState::codeUint32, decoding the four bytes at position at of the buffer.
readUint32(buf, at) ==
    buf[at] + 256 * (buf[at + 1] + 256 * (buf[at + 2] + 256 * buf[at + 3]))

\* XDRState::codeUint64, encoding: the eight bytes, lowest first.
codeUint64(v) == v

\* XDRState::codeUint64, decoding the eight bytes at position at of the buffer.
readUint64(buf, at) == [j \in 1..8 |-> buf[at + j - 1]]

\* XDRLazyScript, encoding: the source location, then the packed fields.
XDRLazyScript_encode(lz) ==
    codeUint32(lz.span.sourceStart_) \o codeUint32(lz.span.sourceEnd_)
        \o codeUint32(lz.span.toStringStart_) \o codeUint32(lz.span.toStringEnd_)
        \o codeUint32(lz.span.lineno_) \o codeUint32(lz.span.column_)
        \o codeUint64(packedFields(lz))

\* XDRLazyScript, decoding: CreateForXDR with what was read, in the enclosing
\* scope given, then setToStringEnd.
XDRLazyScript_decode(buf, enclosingScope) ==
    LET created == LazyScript_ctor(readUint64(buf, 25), readUint32(buf, 1),
                                   readUint32(buf, 5), readUint32(buf, 9),
                                   readUint32(buf, 17), readUint32(buf, 21))
        scoped == IF enclosingScope = nullptr THEN created
                  ELSE [created EXCEPT !.enclosingLazyScriptOrScope_ =
                           setEnclosingScope(created, enclosingScope)
                               .lz.enclosingLazyScriptOrScope_]
    IN setToStringEnd(scoped, readUint32(buf, 13))

\* The last operation of the encoder or decoder: its name, the script it was
\* on, its result, and the LazyScript it returned.
XdrOp(op, s, result, lazy) == [op |-> op, s |-> s, result |-> result, lazy |-> lazy]

\* A buffer with what was encoded into it: the bytes, and for comparison the
\* LazyScript, or the script and its block (less the count), that the encoder
\* read.
XdrBuf(kind, bytes, lz, script, data) ==
    [kind |-> kind, bytes |-> bytes, lz |-> lz, script |-> script, data |-> data]

\* No LazyScript, no script, no block: null pointers; a buffer nothing was
\* encoded into.
NoXdrLazy == nullptr
NoXdrScript == nullptr
NoXdrData == nullptr
NoXdrBuf == XdrBuf("none", <<>>, NoXdrLazy, NoXdrScript, NoXdrData)

\* The sets of flags of the functions parsed lazily: none, each flag alone,
\* all of them.
PackedFlagSets ==
    {{}, PackedViewFlags} \cup {{name} : name \in PackedViewFlags}

\* The counts and the source locations of the functions parsed lazily; each
\* count is zero, one, or the greatest its field holds.
LazyShapes ==
    {[ncob |-> 0, nif |-> 0, span |-> Span(0, 9, 300, 300, 1, 0)],
     [ncob |-> Pow2(NumClosedOverBindingsBits) - 1, nif |-> 1,
      span |-> Span(258, 270, 1025, 1027, 3, 258)],
     [ncob |-> 1, nif |-> Pow2(NumInnerFunctionsBits) - 1,
      span |-> Span(65536, 65537, 65793, 65793, 257, 4)]}

\* The LazyScript the parser makes of a function with these flags and shape,
\* packing the fields in a local union whose memory held mem.
ParsedLazyScript(on, shape, mem) ==
    LET p == [name \in PackedViewFields |->
                 IF name = "numClosedOverBindings" THEN shape.ncob
                 ELSE IF name = "numInnerFunctions" THEN shape.nif
                 ELSE IF name \in on THEN 1 ELSE 0]
    IN setToStringEnd(
           LazyScript_ctor(PackedFieldsOf(p, mem), shape.span.sourceStart_,
                           shape.span.sourceEnd_, shape.span.toStringStart_,
                           shape.span.lineno_, shape.span.column_),
           shape.span.toStringEnd_).lz

\* The flags and the source locations of the functions compiled.
ScriptShapes ==
    {[js |-> [NewRelazifiableFields EXCEPT !.selfHosted_ = TRUE,
                                           !.isGenerator_ = TRUE,
                                           !.isDefaultClassConstructor_ = TRUE],
      span |-> Span(258, 270, 1025, 1027, 3, 258)],
     [js |-> [NewRelazifiableFields EXCEPT !.hasInnerFunctions_ = TRUE,
                                           !.isAsync_ = TRUE],
      span |-> Span(65536, 65537, 65793, 65793, 257, 4)]}

\* The units the emitter hands over for them: one without atoms, one with.
XdrContents == {Content(<<>>, <<0>>, <<0, 0>>), Content(<<1>>, <<0>>, <<0, 0>>)}

\* Nothing has been compiled: no script is alive and no block is registered.
NothingCompiled == table = {} /\ \A s \in DataScripts : ~scriptLive[s]

\* The bytes the memory of a union was found filled with: clear, set, and
\* patterns that differ from bit to bit.
FillBytes == {0, 1, 90, 165, 255}

\* The LazyScripts of the functions parsed lazily: every set of flags and
\* shape packed in memory that was clear, and no flag and every flag packed in
\* memory that was filled otherwise.
ParsedLazyScripts ==
    LET mems == {m \in UnionMemories : \E fill \in FillBytes : m = FilledMemory(fill)}
    IN {ParsedLazyScript(c[1], c[2], c[3]) :
           c \in {d \in PackedFlagSets \X LazyShapes \X mems :
                      d[3] = FilledMemory(0) \/ d[1] \in {{}, PackedViewFlags}}}

\* The columns callers set on a script: one that does not fit in 32 bits.
SetColumns == {<<7, 0, 0, 0, 1, 0, 0, 0>>}

\* XDRLazyScript<XDR_ENCODE> on the LazyScript of a function parsed lazily.
\* The coder of LazyScripts reads and writes no script and no block: it is
\* run where nothing has been compiled.
XdrEncodeLazy(lz) ==
    /\ NothingCompiled
    /\ xdrBuf' = XdrBuf("lazy", XDRLazyScript_encode(lz), lz, NoXdrScript, NoXdrData)
    /\ xdrOp' = XdrOp("encodeLazy", nullptr, "ok", NoXdrLazy)
    /\ UNCHANGED <<xdrScript, dataVars, refErr>>
    /\ UNCHANGED notXdr

\* XDRLazyScript<XDR_DECODE>, with the enclosing scope or without.
XdrDecodeLazy(enclosingScope) ==
    /\ xdrBuf.kind = "lazy"
    /\ LET out == XDRLazyScript_decode(xdrBuf.bytes, enclosingScope)
       IN xdrOp' = XdrOp("decodeLazy", nullptr, out.result, out.lz)
    /\ UNCHANGED <<xdrBuf, xdrScript, dataVars, refErr>>
    /\ UNCHANGED notXdr

\* A new script s gets a block filled with c, and JSScript::shareScriptData
\* interns it: on a hit the script drops its candidate and points at the
\* entry; on a miss the candidate is added and the table takes a reference.
CreateAndShare(s, c) ==
    /\ ~scriptLive[s]
    /\ Malloc # nullptr
    /\ LET ssd == Malloc
           heap == [block EXCEPT ![ssd] = incRefCount(new_(c))]
           hits == {p \in table : match(block[p], heap[ssd])}
       IN IF hits # {}
          THEN \E p \in hits :
                 /\ block' = IncRef(DecRef(heap, ssd), p)
                 /\ scriptData_' = [scriptData_ EXCEPT ![s] = p]
                 /\ refErr' = (refErr \/ BadDecRef(heap, ssd)
                                      \/ BadIncRef(DecRef(heap, ssd), p))
                 /\ UNCHANGED table
          ELSE /\ table' = table \cup {ssd}
               /\ block' = IncRef(heap, ssd)
               /\ scriptData_' = [scriptData_ EXCEPT ![s] = ssd]
               /\ refErr' = (refErr \/ BadIncRef(heap, ssd))
    /\ scriptLive' = [scriptLive EXCEPT ![s] = TRUE]
    /\ dataOp' = DataOp("shareScriptData", FreedBy(block, block'))

\* A function is compiled eagerly.
XdrCompile(s, shape, c) ==
    /\ xdrBuf.kind # "lazy"
    /\ CreateAndShare(s, c)
    /\ xdrScript' = [xdrScript EXCEPT ![s] = shape]
    /\ xdrOp' = XdrOp("compile", s, "ok", NoXdrLazy)
    /\ UNCHANGED xdrBuf
    /\ UNCHANGED notXdr

\* setColumn on the live script s.
XdrSetColumn(s, column) ==
    /\ scriptLive[s]
    /\ xdrScript' = [xdrScript EXCEPT ![s] = setColumn(@, column)]
    /\ xdrOp' = XdrOp("setColumn", s, "ok", NoXdrLazy)
    /\ UNCHANGED <<xdrBuf, dataVars, refErr>>
    /\ UNCHANGED notXdr

\* The script s is collected: its block loses a reference and its fields are
\* gone.
XdrFinalizeScript(s) ==
    /\ FinalizeScriptData(s)
    /\ xdrScript' = [xdrScript EXCEPT ![s] = NoXdrScript]
    /\ UNCHANGED <<xdrBuf, xdrOp>>
    /\ UNCHANGED notXdr

XdrInit ==
    /\ xdrScript = [s \in DataScripts |-> NoXdrScript]
    /\ xdrBuf = NoXdrBuf
    /\ xdrOp = XdrOp("none", nullptr, "ok", NoXdrLazy)

XdrNext ==
    \/ \E lz \in ParsedLazyScripts : XdrEncodeLazy(lz)
    \/ \E sc \in {nullptr, GlobalScope} : XdrDecodeLazy(sc)
    \/ \E s \in DataScripts, shape \in ScriptShapes, c \in XdrContents :
          XdrCompile(s, shape, c)
    \/ \E s \in DataScripts, column \in SetColumns : XdrSetColumn(s, column)
    \/ \E s \in DataScripts : XdrFinalizeScript(s)
    \/ SweepScriptData

\* ================================================= trailing arrays of a script

\* enum ArrayKind.
CONSTS == 0
OBJECTS == 1
TRYNOTES == 2
SCOPENOTES == 3
ARRAY_KIND_BITS == 4

\* sizeof of a pointer and of uint32_t.
SizeofPointer == 8
SizeofUint32 == 4

\* n rounded up to a multiple of align.
AlignUp(n, align) == ((n + align - 1) \div align) * align

\* sizeof(T) for the array headers ConstArray, ObjectArray, ScopeArray,
\* TryNoteArray, ScopeNoteArray and YieldAndAwaitOffsetArray: each is a pointer
\* followed by a uint32_t, padded to the alignment of the pointer.
Sizeof(t) ==
    IF t \in {"ConstArray", "ObjectArray", "ScopeArray", "TryNoteArray",
              "ScopeNoteArray", "YieldAndAwaitOffsetArray"}
    THEN AlignUp(SizeofPointer + SizeofUint32, SizeofPointer)
    ELSE IF t \in {"GCPtrValue", "GCPtrObject", "GCPtrScope"} THEN SizeofPointer
    ELSE IF t = "JSTryNote" THEN AlignUp(1, SizeofUint32) + 3 * SizeofUint32
    ELSE IF t = "ScopeNote" THEN 4 * SizeofUint32
    ELSE SizeofUint32

\* The fields of a JSScript that its initialization and its tiers write, as
\* JSScript's member initializers leave them; the array bits are zeroed by the
\* constructor.
NewInitFields ==
    [data |-> nullptr, dataSize_ |-> 0, hasArrayBits_ |-> 0,
     isGenerator_ |-> FALSE, isAsync_ |-> FALSE,
     ion |-> nullptr, baseline |-> nullptr]

\* Memory that holds no JSScript.
NoJSScript == [allocated |-> FALSE]

\* hasArray that tests the bit of the next kind.
hasArray_nextKind(js, kind) == (js.hasArrayBits_ \div Pow2(kind + 1)) % 2 # 0

\* JSScript::hasArray: hasArrayBits_ & (1 << kind).
hasArray(js, kind) == (js.hasArrayBits_ \div Pow2(kind)) % 2 # 0

\* JSScript::setHasArray: hasArrayBits_ |= (1 << kind), in a bit-field of
\* ARRAY_KIND_BITS bits.
setHasArray(js, kind) ==
    [js EXCEPT !.hasArrayBits_ =
        (IF hasArray(js, kind) THEN @ ELSE @ + Pow2(kind)) % Pow2(ARRAY_KIND_BITS)]

\* JSScript::cloneHasArray: the array bits of another script are copied.
cloneHasArray(js, script) == [js EXCEPT !.hasArrayBits_ = script.hasArrayBits_]

\* JSScript::hasConsts, hasObjects, hasTrynotes, hasScopeNotes.
hasConsts(js) == hasArray(js, CONSTS)
hasObjects(js) == hasArray(js, OBJECTS)
hasTrynotes(js) == hasArray(js, TRYNOTES)
hasScopeNotes(js) == hasArray(js, SCOPENOTES)

\* JSScript::hasYieldAndAwaitOffsets.
hasYieldAndAwaitOffsets(js) == isGenerator(js) \/ isAsync(js)

\* #define OFF(fooOff, hasFoo, t) (fooOff() + (hasFoo() ? sizeof(t) : 0)).
OFF(fooOff, hasFoo, t) == fooOff + (IF hasFoo THEN Sizeof(t) ELSE 0)

\* JSScript::scopesOffset .. yieldAndAwaitOffsetsOffset.
scopesOffset(js) == 0
constsOffset(js) == scopesOffset(js) + Sizeof("ScopeArray")
objectsOffset(js) == OFF(constsOffset(js), hasConsts(js), "ConstArray")

\* trynotesOffset that does not count the header of the objects.
trynotesOffset_skipsObjects(js) == OFF(objectsOffset(js), FALSE, "ObjectArray")

trynotesOffset(js) == OFF(objectsOffset(js), hasObjects(js), "ObjectArray")
scopeNotesOffset(js) == OFF(trynotesOffset(js), hasTrynotes(js), "TryNoteArray")
yieldAndAwaitOffsetsOffset(js) ==
    OFF(scopeNotesOffset(js), hasScopeNotes(js), "ScopeNoteArray")

\* What the emitter knows of the trailing arrays: the count of each.
Counts(nscopes, nconsts, nobjects, ntrynotes, nscopenotes, nyieldoffsets) ==
    [nscopes |-> nscopes, nconsts |-> nconsts, nobjects |-> nobjects,
     ntrynotes |-> ntrynotes, nscopenotes |-> nscopenotes,
     nyieldoffsets |-> nyieldoffsets]

\* ScriptDataSize: the headers of the arrays that have elements, then the
\* elements.
ScriptDataSize(n) ==
    Sizeof("ScopeArray")
    + (IF n.nconsts # 0 THEN Sizeof("ConstArray") ELSE 0)
    + (IF n.nobjects # 0 THEN Sizeof("ObjectArray") ELSE 0)
    + (IF n.ntrynotes # 0 THEN Sizeof("TryNoteArray") ELSE 0)
    + (IF n.nscopenotes # 0 THEN Sizeof("ScopeNoteArray") ELSE 0)
    + (IF n.nyieldoffsets # 0 THEN Sizeof("YieldAndAwaitOffsetArray") ELSE 0)
    + n.nconsts * Sizeof("GCPtrValue")
    + n.nscopes * Sizeof("GCPtrScope")
    + n.nobjects * Sizeof("GCPtrObject")
    + n.ntrynotes * Sizeof("JSTryNote")
    + n.nscopenotes * Sizeof("ScopeNote")
    + n.nyieldoffsets * Sizeof("uint32_t")

\* JSScript::partiallyInit with the trailing data AllocScriptData returned
\* (nullptr when it could not be allocated): the failure leaves the script as
\* it was; otherwise the data and its size are recorded and the bit of every
\* array that has elements is set.
partiallyInit(js, n, allocated) ==
    IF allocated = nullptr THEN Outcome(js, "alloc-error")
    ELSE LET js0 == [js EXCEPT !.data = allocated, !.dataSize_ = ScriptDataSize(n)]
             js1 == IF n.nconsts # 0 THEN setHasArray(js0, CONSTS) ELSE js0
             js2 == IF n.nobjects # 0 THEN setHasArray(js1, OBJECTS) ELSE js1
             js3 == IF n.ntrynotes # 0 THEN setHasArray(js2, TRYNOTES) ELSE js2
             js4 == IF n.nscopenotes # 0 THEN setHasArray(js3, SCOPENOTES) ELSE js3
         IN Outcome(js4, "ok")

\* The address of the trailing data of the script laid out.
TheData == 1

\* The counts the emitter can hand over: at least the body scope, and offsets
\* of yields and awaits only for a generator or an async function.
CountRange == 0..MaxCount
EmitterCounts(js) ==
    {Counts(1, nc, no, nt, ns, ny) :
        nc \in CountRange, no \in CountRange, nt \in CountRange,
        ns \in CountRange,
        ny \in IF hasYieldAndAwaitOffsets(js) THEN CountRange ELSE {0}}

notLayout ==
    <<tierVars, dataVars, holderVars, refErr, sourceVars, lazyVars, relazVars,
      xdrVars, buildScript, buildOp, bgVars, sideVars>>

\* JSScript::Create for a function of the given kinds.
LayoutCreate(generator, async) ==
    /\ layoutScript = NoJSScript
    /\ setGeneratorKind_assert(NewInitFields)
    /\ layoutScript' = setAsyncKind(setGeneratorKind(NewInitFields, generator), async)
    /\ UNCHANGED notLayout

\* JSScript::partiallyInit on the script.
LayoutPartiallyInit(n, oom) ==
    /\ layoutScript # NoJSScript
    /\ layoutScript.data = nullptr
    /\ n \in EmitterCounts(layoutScript)
    /\ layoutScript' =
           partiallyInit(layoutScript, n, IF oom THEN nullptr ELSE TheData).js
    /\ UNCHANGED notLayout

\* cloneHasArray on the script, from another script with the given array
\* bits.
LayoutCloneHasArray(bits) ==
    /\ layoutScript # NoJSScript
    /\ layoutScript' =
           cloneHasArray(layoutScript, [NewInitFields EXCEPT !.hasArrayBits_ = bits])
    /\ UNCHANGED notLayout

\* The script is collected.
LayoutFinalize ==
    /\ layoutScript # NoJSScript
    /\ layoutScript' = NoJSScript
    /\ UNCHANGED notLayout

LayoutInit == layoutScript = NoJSScript

LayoutNext ==
    \/ \E generator, async \in BOOLEAN : LayoutCreate(generator, async)
    \/ \E nc, no, nt, ns, ny \in CountRange, oom \in BOOLEAN :
          LayoutPartiallyInit(Counts(1, nc, no, nt, ns, ny), oom)
    \/ \E bits \in 0..(Pow2(ARRAY_KIND_BITS) - 1) : LayoutCloneHasArray(bits)
    \/ LayoutFinalize

\* ------------------------------------------------- trailing arrays: claims

\* Bit k of a presence mask.
PresenceBit(bits, k) == (bits \div Pow2(k)) % 2 = 1

\* The headers before the header of array kind: the scope header, and the
\* header of each optional array before kind whose presence bit is set.
HeadersBefore(bits, kind) ==
    Sizeof("ScopeArray")
    + (IF kind > CONSTS /\ PresenceBit(bits, CONSTS) THEN Sizeof("ConstArray") ELSE 0)
    + (IF kind > OBJECTS /\ PresenceBit(bits, OBJECTS) THEN Sizeof("ObjectArray") ELSE 0)
    + (IF kind > TRYNOTES /\ PresenceBit(bits, TRYNOTES) THEN Sizeof("TryNoteArray") ELSE 0)
    + (IF kind > SCOPENOTES /\ PresenceBit(bits, SCOPENOTES)
       THEN Sizeof("ScopeNoteArray") ELSE 0)

\* The offsets of the headers of the optional arrays, by kind; the kind after
\* the last stands for the offsets of yields and awaits.
OffsetOf(js, kind) ==
    CASE kind = CONSTS -> constsOffset(js)
      [] kind = OBJECTS -> objectsOffset(js)
      [] kind = TRYNOTES -> trynotesOffset(js)
      [] kind = SCOPENOTES -> scopeNotesOffset(js)
      [] OTHER -> yieldAndAwaitOffsetsOffset(js)

\* C24: for every presence mask partiallyInit can leave, the scope header is
\* at offset zero and the header of each following array is at the size of the
\* scope header plus the header sizes of the optional arrays before it whose
\* bit is set; the offset is the same for every mask that agrees on the bits
\* before the array, whoever wrote the mask; and the data partiallyInit lays
\* out for a script as constructed holds no header for an array without
\* elements.
C24_State ==
    layoutScript # NoJSScript =>
        /\ layoutScript.hasArrayBits_ \in 0..(Pow2(ARRAY_KIND_BITS) - 1)
        /\ scopesOffset(layoutScript) = 0
        /\ \A kind \in CONSTS..ARRAY_KIND_BITS :
             /\ OffsetOf(layoutScript, kind)
                    = HeadersBefore(layoutScript.hasArrayBits_, kind)
             /\ \A bits \in 0..(Pow2(ARRAY_KIND_BITS) - 1) :
                  (bits % Pow2(kind) = layoutScript.hasArrayBits_ % Pow2(kind)) =>
                      OffsetOf([layoutScript EXCEPT !.hasArrayBits_ = bits], kind)
                          = OffsetOf(layoutScript, kind)

\* A script partiallyInit has just laid out holds exactly the headers of the
\* arrays whose bit is set.
LaidOutExactly(js) ==
               \E n \in EmitterCounts(js) :
                   /\ \A kind \in CONSTS..SCOPENOTES :
                        PresenceBit(js.hasArrayBits_, kind)
                            <=> (<<n.nconsts, n.nobjects, n.ntrynotes,
                                   n.nscopenotes>>[kind + 1] # 0)
                   /\ js.dataSize_ =
                          HeadersBefore(js.hasArrayBits_, ARRAY_KIND_BITS)
                          + (IF n.nyieldoffsets # 0
                             THEN Sizeof("YieldAndAwaitOffsetArray") ELSE 0)
                          + n.nconsts * Sizeof("GCPtrValue")
                          + n.nscopes * Sizeof("GCPtrScope")
                          + n.nobjects * Sizeof("GCPtrObject")
                          + n.ntrynotes * Sizeof("JSTryNote")
                          + n.nscopenotes * Sizeof("ScopeNote")
                          + n.nyieldoffsets * Sizeof("uint32_t")

\* The layout step of C24: partiallyInit gives data to a script whose array
\* bits are as the constructor left them.
C24_Step ==
    (/\ layoutScript # NoJSScript
     /\ layoutScript' # NoJSScript
     /\ layoutScript.data = nullptr
     /\ layoutScript.hasArrayBits_ = 0
     /\ layoutScript'.data # nullptr)
        => LaidOutExactly(layoutScript')

C24_OffsetsSumPresentPredecessors == [](C24_State) /\ [][C24_Step]_vars

\* C24 witness: a script laid out with objects and scope notes and without
\* constants and try notes; its scope notes follow the scope header and the
\* header of the objects.
C24_Witness ==
    /\ layoutScript # NoJSScript
    /\ layoutScript.data # nullptr
    /\ layoutScript.hasArrayBits_ = Pow2(OBJECTS) + Pow2(SCOPENOTES)
    /\ LaidOutExactly(layoutScript)
    /\ scopeNotesOffset(layoutScript) = Sizeof("ScopeArray") + Sizeof("ObjectArray")
    /\ objectsOffset(layoutScript) = Sizeof("ScopeArray")

\* ========================================================= building a script

\* The counts and the bytecode the emitter hands over for the scripts built.
BuildCounts == {Counts(1, 1, 0, 1, 0, 0)}
BuildContents == {Content(<<>>, <<0>>, <<0, 0>>)}

\* The steps of the building of a script that allocate, and so can fail.
BuildSteps == {"partiallyInit", "createScriptData", "shareScriptData"}

\* ScriptSource::setSource(cx, source, length): the text is deduplicated in the
\* runtime's cache of immutable strings (string_, nullptr when that fails) and
\* recorded; a failure is reported and leaves the source as it was.
setSource_checked(ss, unit, string_, len) ==
    IF string_ = nullptr THEN [ss |-> ss, result |-> "alloc-error"]
    ELSE [ss |-> setSource(ss, unit, string_, len).ss, result |-> "ok"]

\* The blocks, the table and the script's block after createScriptData and
\* shareScriptData, with the result and whether a count was misused.
BytecodeOutcome(heap, tbl, ptr, result, err) ==
    [block |-> heap, table |-> tbl, scriptData_ |-> ptr, result |-> result,
     err |-> err]

\* createScriptData, the emitter's copy and shareScriptData for a script
\* without block, ssd being the memory for the candidate; failAt names the
\* allocation that fails, if any. A script whose sharing fails is neutered by
\* freeScriptData.
attachBytecode(heap, tbl, ssd, c, failAt) ==
    IF failAt = "createScriptData" \/ ssd = nullptr
    THEN BytecodeOutcome(heap, tbl, nullptr, "alloc-error", FALSE)
    ELSE LET cand == [heap EXCEPT ![ssd] = incRefCount(new_(c))]
             hits == {p \in tbl : match(heap[p], cand[ssd])}
         IN IF hits # {}
            THEN LET p == CHOOSE q \in hits : TRUE
                 IN BytecodeOutcome(IncRef(DecRef(cand, ssd), p), tbl, p, "ok",
                                    BadDecRef(cand, ssd)
                                        \/ BadIncRef(DecRef(cand, ssd), p))
            ELSE IF failAt = "shareScriptData"
            THEN BytecodeOutcome(DecRef(cand, ssd), tbl, nullptr, "alloc-error",
                                 BadDecRef(cand, ssd))
            ELSE BytecodeOutcome(IncRef(cand, ssd), tbl \cup {ssd}, ssd, "ok",
                                 BadIncRef(cand, ssd))

\* The last operation of the building of scripts: its name, the script, its
\* result, and the allocation that failed.
BuildOp(op, s, result, failAt) ==
    [op |-> op, s |-> s, result |-> result, failAt |-> failAt]

notBuild ==
    <<tierVars, holderVars, lazyVars, relazVars, xdrVars, pins, task, srcOp,
      srcCrash, pendingTasks, layoutScript, bgVars, sideVars>>

\* The frontend records the text it is about to compile.
BuildSetSource(unit, oom) ==
    /\ sourceText.data = Missing
    /\ LET out == setSource_checked(sourceText, unit,
                                    IF oom THEN nullptr ELSE TextBuf, MaxSourceLen)
       IN /\ sourceText' = out.ss
          /\ buildOp' = BuildOp("setSource", nullptr, out.result,
                                IF oom THEN "setSource" ELSE "none")
    /\ UNCHANGED <<dataVars, refErr, buildScript, notBuild>>

\* JSScript::Create: a script of the text, uncompleted.
BuildCreate(s) ==
    /\ hasSourceText(sourceText)
    /\ ~scriptLive[s]
    /\ scriptLive' = [scriptLive EXCEPT ![s] = TRUE]
    /\ scriptData_' = [scriptData_ EXCEPT ![s] = nullptr]
    /\ buildScript' = [buildScript EXCEPT ![s] = NewInitFields]
    /\ dataOp' = DataOp("create", {})
    /\ buildOp' = BuildOp("Create", s, "ok", "none")
    /\ UNCHANGED <<block, table, refErr, sourceText, notBuild>>

\* JSScript::fullyInitFromEmitter: partiallyInit, then createScriptData, the
\* copy of the bytecode and shareScriptData; the first failure ends it. The
\* trailing data of script s is at the address named s.
FullyInitFromEmitter(s, n, c, failAt) ==
    /\ scriptLive[s]
    /\ isUncompleted(scriptData_[s])
    /\ buildScript[s].data = nullptr
    /\ LET pi == partiallyInit(buildScript[s], n,
                               IF failAt = "partiallyInit" THEN nullptr ELSE s)
       IN IF pi.result # "ok"
          THEN /\ buildScript' = [buildScript EXCEPT ![s] = pi.js]
               /\ buildOp' = BuildOp("fullyInitFromEmitter", s, pi.result, failAt)
               /\ UNCHANGED <<dataVars, refErr>>
          ELSE LET bc == attachBytecode(block, table, Malloc, c, failAt)
               IN /\ buildScript' = [buildScript EXCEPT ![s] = pi.js]
                  /\ block' = bc.block
                  /\ table' = bc.table
                  /\ scriptData_' = [scriptData_ EXCEPT ![s] = bc.scriptData_]
                  /\ refErr' = (refErr \/ bc.err)
                  /\ dataOp' = DataOp("fullyInitFromEmitter", FreedBy(block, bc.block))
                  /\ buildOp' = BuildOp("fullyInitFromEmitter", s, bc.result,
                                        IF bc.result = "ok" THEN "none" ELSE failAt)
                  /\ UNCHANGED scriptLive
    /\ UNCHANGED <<sourceText, notBuild>>

\* JSScript::finalize: the script releases its block and is gone.
BuildFinalize(s) ==
    /\ scriptLive[s]
    /\ scriptLive' = [scriptLive EXCEPT ![s] = FALSE]
    /\ scriptData_' = [scriptData_ EXCEPT ![s] = nullptr]
    /\ buildScript' = [buildScript EXCEPT ![s] = NoJSScript]
    /\ IF scriptData_[s] # nullptr
       THEN /\ block' = DecRef(block, scriptData_[s])
            /\ refErr' = (refErr \/ BadDecRef(block, scriptData_[s]))
       ELSE UNCHANGED <<block, refErr>>
    /\ dataOp' = DataOp("finalize", FreedBy(block, block'))
    /\ buildOp' = BuildOp("finalize", s, "ok", "none")
    /\ UNCHANGED <<table, sourceText, notBuild>>

BuildInit ==
    /\ buildScript = [s \in DataScripts |-> NoJSScript]
    /\ buildOp = BuildOp("none", nullptr, "ok", "none")

BuildNext ==
    \/ \E oom \in BOOLEAN : BuildSetSource("char16_t", oom)
    \/ \E s \in DataScripts : BuildCreate(s)
    \/ \E s \in DataScripts, n \in BuildCounts, c \in BuildContents,
          failAt \in BuildSteps \cup {"none"} : FullyInitFromEmitter(s, n, c, failAt)
    \/ \E s \in DataScripts : BuildFinalize(s)
    \/ SweepScriptData

\* ------------------------------------------------ building a script: claims

\* C22: bytecode is attached to a script at most once. A live script reports
\* isUncompleted() exactly while it has no block, and the block it has is
\* allocated and registered. Bytecode is attached only to a script that is
\* uncompleted, by a successful fullyInitFromEmitter on that script, which
\* leaves the script completed and the attached block with one reference more
\* than it had (a block that is new to the table also has the reference of the
\* table) and writes the block of no other script. A script that has a block
\* has that same block for as long as it lives.
C22_State ==
    \A s \in DataScripts :
        scriptLive[s] =>
            /\ isUncompleted(scriptData_[s]) <=> scriptData_[s] = nullptr
            /\ scriptData_[s] # nullptr =>
                   /\ block[scriptData_[s]].live
                   /\ scriptData_[s] \in table

C22_Step ==
    \A s \in DataScripts :
      (scriptLive[s] /\ scriptLive'[s]) =>
        LET old == scriptData_[s]
            new == scriptData_'[s]
        IN /\ old # nullptr => new = old
           /\ (old = nullptr /\ new # nullptr) =>
                  /\ isUncompleted(old)
                  /\ ~isUncompleted(new)
                  /\ buildOp'.op = "fullyInitFromEmitter"
                  /\ buildOp'.s = s
                  /\ buildOp'.result = "ok"
                  /\ block'[new].live
                  /\ block'[new].refCount_
                         = CountAt(block, new) + 1 + (IF new \in table THEN 0 ELSE 1)
                  /\ \A p \in BlockPtrs \ {new} : CountAt(block', p) = CountAt(block, p)
                  /\ \A t \in DataScripts \ {s} : scriptData_'[t] = scriptData_[t]

C22_AttachedOnce == []C22_State /\ [][C22_Step]_vars

\* C22 witness: bytecode has just been attached to a second script; it is the
\* block the first script has, which now counts the table and both scripts,
\* and the first script has it still.
C22_Witness ==
    /\ buildOp.op = "fullyInitFromEmitter"
    /\ buildOp.result = "ok"
    /\ ~isUncompleted(scriptData_[buildOp.s])
    /\ \E t \in DataScripts \ {buildOp.s} :
         /\ scriptLive[t] /\ scriptLive[buildOp.s]
         /\ scriptData_[t] = scriptData_[buildOp.s]
         /\ scriptData_[t] \in table
         /\ block[scriptData_[t]].refCount_ = 3

\* ========================================================= background work

\* An off-thread optimizing compile: where it is (none, queued, done, failed,
\* pending), the IonScript it produced, and whether its script was invalidated
\* or relazified since it started.
IonTask(state, ionScript, stale) ==
    [state |-> state, code |-> ionScript, stale |-> stale]

NoIonTask == IonTask("none", nullptr, FALSE)

\* The compile that is under way becomes stale.
Stale(t) == IF t.state = "none" THEN t ELSE [t EXCEPT !.stale = TRUE]

\* The script and the compile after a step of the owning thread.
IonOutcome(js, t, result) == [js |-> js, task |-> t, result |-> result]

\* The owning thread starts an off-thread compile: markCompiling(optimizing),
\* and the compile is queued for a helper thread.
startIonCompile(js, t) ==
    LET out == markCompilingIon(js)
    IN IF t.state # "none" THEN IonOutcome(js, t, "Busy")
       ELSE IF out.result # "ok" THEN IonOutcome(js, t, out.result)
       ELSE IonOutcome(out.js, IonTask("queued", nullptr, FALSE), "ok")

\* The helper thread generates code, or gives up; it writes its task only.
ionWork(t, ok, h) ==
    IF ok THEN [t EXCEPT !.state = "done", !.code = h]
    ELSE [t EXCEPT !.state = "failed"]

\* A compile is given up: a slot that says compiling or pending is absent
\* again, another slot is left alone.
abortIonCompile(js) ==
    IF isIonCompilingOffThread(js) \/ js.ion = ION_PENDING_SCRIPT
    THEN setIonScript(js, nullptr)
    ELSE js

\* The owning thread, at a safe point, takes a finished compile: a failed one
\* is dropped, a done one becomes pending link; the compile of a script that
\* is collected is dropped without a look at the script.
finishIonCompile(js, t, fun) ==
    IF fun = "collected" THEN IonOutcome(js, NoIonTask, "ok")
    ELSE IF t.state = "failed" THEN IonOutcome(abortIonCompile(js), NoIonTask, "ok")
    ELSE LET out == markPendingLink(js)
         IN IF out.result # "ok" THEN IonOutcome(js, NoIonTask, "ok")
            ELSE IonOutcome(out.js, [t EXCEPT !.state = "pending"], "ok")

\* The owning thread links the pending compile: its code is attached, unless
\* the compile is stale or its script is lazy again or collected, and then the
\* code is discarded.
linkIonCompile(js, t, fun) ==
    IF fun = "collected" THEN IonOutcome(js, NoIonTask, "ok")
    ELSE IF t.stale \/ fun # "script"
         THEN IonOutcome(abortIonCompile(js), NoIonTask, "ok")
    ELSE LET out == linkPending(js, t.code)
         IN IF out.result # "ok"
            THEN IonOutcome(abortIonCompile(js), NoIonTask, "ok")
            ELSE IonOutcome(out.js, NoIonTask, "ok")

\* The handles the compiles of this section use, and the text's length.
BgBaselineHandles == {BASELINE_DISABLED_SCRIPT + 1}
BgIonHandles == {ION_PENDING_SCRIPT + 1}

notBg ==
    <<tierVars, dataVars, holderVars, refErr, sourceVars, lazyVars, xdrVars,
      buildVars, critical, sideVars>>

\* One step of the owning thread on the function's script and its compile.
BgCall(op, out) ==
    /\ relazFun = "script"
    /\ relazScript' = out.js
    /\ ionTask' = out.task
    /\ relazOp' = RelazOp(op, nullptr, out.result, nullptr)
    /\ UNCHANGED relazFun
    /\ UNCHANGED notBg

\* A function that may be relazified is compiled from its LazyScript.
BgCreate == RelazCreate(FALSE, FALSE, FALSE, FALSE, TheLazyScript)

\* The tiers of the script, on the owning thread.
BgAttachBaseline(h) ==
    BgCall("attachBaseline",
           IonOutcome(attachBaseline(relazScript, h).js, ionTask,
                      attachBaseline(relazScript, h).result))
BgDisableBaseline ==
    BgCall("disableBaseline",
           IonOutcome(disableBaseline(relazScript).js, ionTask,
                      disableBaseline(relazScript).result))
BgDisableIon ==
    BgCall("disableIon", IonOutcome(disableIon(relazScript).js, ionTask, "ok"))

\* The owning thread asks for an off-thread compile.
BgStartIonCompile ==
    BgCall("markCompilingIon", startIonCompile(relazScript, ionTask))

\* A helper thread runs the compile.
BgIonWork(ok, h) ==
    /\ ionTask.state = "queued"
    /\ ionTask' = ionWork(ionTask, ok, h)
    /\ UNCHANGED <<relazVars, notBg>>

\* The owning thread takes the finished compile at a safe point.
BgFinishIonCompile ==
    /\ ionTask.state \in {"done", "failed"}
    /\ LET out == finishIonCompile(relazScript, ionTask, relazFun)
       IN /\ relazScript' = out.js
          /\ ionTask' = out.task
          /\ relazOp' = RelazOp("finishIonCompile", nullptr, out.result, nullptr)
    /\ UNCHANGED relazFun
    /\ UNCHANGED notBg

\* The owning thread links the pending compile.
BgLinkIonCompile ==
    /\ ionTask.state = "pending"
    /\ LET out == linkIonCompile(relazScript, ionTask, relazFun)
       IN /\ relazScript' = out.js
          /\ ionTask' = out.task
          /\ relazOp' = RelazOp("linkPending", nullptr, out.result, nullptr)
    /\ UNCHANGED relazFun
    /\ UNCHANGED notBg

\* The script is invalidated: attached optimizing code is detached, and a
\* compile under way is stale.
BgInvalidate ==
    BgCall("detachOptimizing",
           IonOutcome(detachOptimizing(relazScript).js, Stale(ionTask), "ok"))

\* relazify() on the function's script; a compile under way is stale.
BgRelazify ==
    /\ relazFun = "script"
    /\ LET out == maybeRelazify(relazScript)
       IN /\ relazScript' = out.js
          /\ relazFun' = IF out.result = "LazyScriptHandle" THEN "lazy" ELSE "script"
          /\ ionTask' = IF out.result = "LazyScriptHandle" THEN Stale(ionTask)
                        ELSE ionTask
          /\ relazOp' = RelazOp("relazify", nullptr, out.result, out.handle)
    /\ UNCHANGED notBg

\* The relazified function is called again before its script was collected.
BgDelazify ==
    /\ relazFun = "lazy"
    /\ relazFun' = "script"
    /\ relazOp' = RelazOp("delazify", nullptr, "ok", nullptr)
    /\ UNCHANGED <<relazScript, ionTask, notBg>>

\* The script of the relazified function is collected.
BgCollect ==
    /\ relazFun = "lazy"
    /\ relazFun' = "collected"
    /\ relazOp' = RelazOp("finalize", nullptr, "ok", nullptr)
    /\ UNCHANGED <<relazScript, ionTask, notBg>>

BgInit == ionTask = NoIonTask

BgNext ==
    \/ BgCreate
    \/ \E h \in BgBaselineHandles : BgAttachBaseline(h)
    \/ BgDisableBaseline
    \/ BgDisableIon
    \/ BgStartIonCompile
    \/ \E ok \in BOOLEAN, h \in BgIonHandles : BgIonWork(ok, h)
    \/ BgFinishIonCompile
    \/ BgLinkIonCompile
    \/ BgInvalidate
    \/ BgRelazify
    \/ BgDelazify
    \/ BgCollect
    \/ SetSource("char16_t", MaxSourceLen)
    \/ TryCompressOffThread(TRUE)
    \/ StartNextTask
    \/ \E ok \in BOOLEAN : PerformTaskWork(ok)
    \/ CompleteTask
    \/ \E oom \in BOOLEAN : Pin(oom)
    \/ Unpin

\* ---------------------------------------------------- background work: claims

\* The function has a script whose fields can be read.
HasScript == relazFun \in {"script", "lazy"}

\* C26: background failures are absorbed. When the owning thread completes a
\* compression task that failed, the source is not written: its data is still
\* the uncompressed text, a pin gets that text, no call has crashed, and a new
\* request is scheduled again. When it takes an optimizing compile that
\* failed, the call ends ok, no optimizing code is attached, the slot no
\* longer says compiling (a disabled slot stays disabled), the baseline slot
\* and the function are as they were, and a script with baseline code can be
\* compiled again. The helper thread's failure itself writes neither the source
\* nor the script. No script is left compiling or pending without a compile.
C26_State ==
    /\ ~srcCrash
    /\ (HasScript /\ relazScript.ion \in {ION_COMPILING_SCRIPT, ION_PENDING_SCRIPT})
           => ionTask.state # "none"

C26_Step ==
    /\ (task.state = "queued" /\ task'.state = "failed") =>
           /\ sourceText' = sourceText
           /\ sourceText'.data.tag = "Uncompressed"
    /\ (task.state = "failed" /\ task' # task) =>
           /\ task' = Task("finished", nullptr)
           /\ srcOp'.op = "complete"
           /\ sourceText' = sourceText
           /\ sourceText'.data.tag = "Uncompressed"
           /\ sourceText'.data.buf = TextBuf
           /\ sourceText'.pendingCompressed_ = NoPending
           /\ units(sourceText', FALSE) = TextBuf
           /\ ~srcCrash'
           /\ tryCompressOffThread(sourceText', TRUE) = "scheduled"
    /\ (ionTask.state = "queued" /\ ionTask'.state = "failed") =>
           /\ relazVars' = relazVars
           /\ ionTask'.stale = ionTask.stale
    /\ (ionTask.state = "failed" /\ ionTask'.state # "failed") =>
           /\ ionTask' = NoIonTask
           /\ relazOp'.op = "finishIonCompile"
           /\ relazOp'.result = "ok"
           /\ relazFun' = relazFun
           /\ relazScript'.baseline = relazScript.baseline
           /\ relazScript'.ion \in {nullptr, ION_DISABLED_SCRIPT}
           /\ relazScript.ion \in IonHandles \cup {nullptr, ION_DISABLED_SCRIPT}
                  => relazScript'.ion = relazScript.ion
           /\ (/\ relazFun' = "script"
               /\ relazScript'.ion = nullptr
               /\ relazScript'.baseline \in BaselineHandles)
                  => startIonCompile(relazScript', ionTask').result = "ok"

C26_StepAsFound ==
    /\ (task.state = "queued" /\ task'.state = "failed") => sourceText' = sourceText
    /\ (task.state = "failed" /\ task' # task) =>
           /\ task' = Task("finished", nullptr)
           /\ srcOp'.op = "complete"
           /\ sourceText' = sourceText
           /\ ~srcCrash'
           /\ sourceText.data.tag = "Uncompressed" =>
                  /\ sourceText'.data.buf = TextBuf
                  /\ units(sourceText', FALSE) = TextBuf
                  /\ tryCompressOffThread(sourceText', TRUE) = "scheduled"
    /\ (ionTask.state = "queued" /\ ionTask'.state = "failed") =>
           /\ relazVars' = relazVars
           /\ ionTask'.stale = ionTask.stale
    /\ (ionTask.state = "failed" /\ ionTask'.state # "failed") =>
           /\ ionTask' = NoIonTask
           /\ relazOp'.op = "finishIonCompile"
           /\ relazOp'.result = "ok"
           /\ relazFun' = relazFun
           /\ relazScript'.baseline = relazScript.baseline
           /\ relazScript'.ion \notin IonHandles
           /\ IF relazFun = "collected" THEN relazScript' = relazScript
              ELSE relazScript'.ion \in {nullptr, ION_DISABLED_SCRIPT}
           /\ relazScript.ion \in IonHandles \cup {nullptr, ION_DISABLED_SCRIPT}
                  => relazScript'.ion = relazScript.ion
           /\ (/\ relazFun' = "script"
               /\ relazScript'.ion = nullptr
               /\ relazScript'.baseline \in BaselineHandles)
                  => startIonCompile(relazScript', ionTask').result = "ok"

C26_FailuresLeaveAsFound == []C26_State /\ [][C26_StepAsFound]_vars

C26_Witness ==
    /\ relazOp.op = "finishIonCompile"
    /\ relazFun = "script"
    /\ ionTask = NoIonTask
    /\ relazScript.ion = nullptr
    /\ relazScript.baseline \in BaselineHandles
    /\ srcOp.op = "complete"
    /\ ~srcOp.applied
    /\ task = Task("finished", nullptr)
    /\ sourceText.data.tag = "Uncompressed"

\* C28: the helper threads write their own task only. The step in which a
\* helper thread finishes the compression or the compile leaves the source,
\* the pins, the script, the function and the other task as they were. The
\* source's text is replaced only by the owning thread, when it completes the
\* task with no pin in scope or when the last pin goes out of scope, and
\* never while a pin holds units; optimizing code is attached only by the
\* owning thread's link of a compile it took before; the function changes
\* between script and LazyScript only in the owning thread's create, relazify,
\* delazify and finalize.
C28_Step ==
    /\ (task.state = "queued" /\ task'.state # "queued") =>
           /\ task'.state \in {"done", "failed"}
           /\ <<sourceText, pins, relazScript, relazFun, ionTask>>'
                  = <<sourceText, pins, relazScript, relazFun, ionTask>>
    /\ (ionTask.state = "queued" /\ ionTask'.state # "queued") =>
           /\ ionTask'.state \in {"done", "failed"}
           /\ ionTask'.stale = ionTask.stale
           /\ <<sourceText, pins, task, relazScript, relazFun>>'
                  = <<sourceText, pins, task, relazScript, relazFun>>
    /\ (sourceText.data # Missing /\ sourceText'.data # sourceText.data) =>
           /\ sourceText'.data.tag = "Compressed"
           /\ Outstanding(pins') = {}
           /\ \/ /\ srcOp'.op = "complete"
                 /\ task.state = "done"
                 /\ sourceText'.data.buf = task.resultString_
                 /\ Outstanding(pins) = {}
              \/ /\ srcOp'.op = "unpin"
                 /\ sourceText'.data = sourceText.pendingCompressed_
    /\ (sourceText'.pendingCompressed_ # sourceText.pendingCompressed_
            /\ sourceText'.pendingCompressed_ # NoPending) =>
           /\ srcOp'.op = "complete"
           /\ task.state = "done"
    /\ (relazFun # "none" /\ relazScript'.ion # relazScript.ion) =>
           /\ relazOp' # relazOp
           /\ ionTask'.state \notin {"done", "failed"}
              \/ ionTask' = ionTask
           /\ relazScript'.ion \in IonHandles =>
                  /\ relazOp'.op = "linkPending"
                  /\ ionTask.state = "pending"
    /\ relazFun' # relazFun =>
           relazOp'.op \in {"Create", "relazify", "delazify", "finalize"}

C28_OnlyOwnerWrites == [][C28_Step]_vars

\* C28 witness: both helper threads have finished and nothing is applied: the
\* compressed text and the code wait in their tasks, a pin holds the
\* uncompressed text, and the slot still says compiling.
C28_Witness ==
    /\ task.state = "done"
    /\ ionTask.state = "done"
    /\ sourceText.data.tag = "Uncompressed"
    /\ Outstanding(pins) # {}
    /\ relazFun = "script"
    /\ relazScript.ion = ION_COMPILING_SCRIPT

\* C30: a pin and relazify never wait for the compression task. Whatever the
\* task's state, a pin can be taken on a source with text, and it gets the
\* units of the data the source has at that moment (the uncompressed buffer,
\* or decompressed characters of compressed text) without a change of the
\* data, of the parked text or of the task; relazify can be called on the
\* function's script and returns without a change of the source or the task.
C30_State ==
    /\ (/\ sourceText.data.tag \in {"Uncompressed", "Compressed"}
        /\ Len(pins) < MaxPins)
           => ENABLED Pin(FALSE)
    /\ relazFun = "script" => ENABLED BgRelazify

C30_Step ==
    /\ Len(pins') = Len(pins) + 1 =>
           /\ srcOp'.op = "pin"
           /\ task' = task
           /\ sourceText'.data = sourceText.data
           /\ sourceText'.pendingCompressed_ = sourceText.pendingCompressed_
           /\ sourceText.data.tag = "Uncompressed" =>
                  pins'[Len(pins')].units_ = sourceText.data.buf
           /\ sourceText.data.tag = "Compressed" =>
                  pins'[Len(pins')].units_ \in {ChunkBuf, nullptr}
           /\ ~srcCrash'
    /\ (relazOp'.op = "relazify" /\ (relazOp' # relazOp \/ relazFun' # relazFun)) =>
           /\ relazOp'.result \in {"NotEligible", "LazyScriptHandle"}
           /\ task' = task
           /\ sourceText' = sourceText
           /\ pins' = pins

C30_PinAndRelazifyNeverWait == []C30_State /\ [][C30_Step]_vars

\* C30 witness: a pin was taken while the finished compression had not been
\* applied, and it holds the uncompressed text; the function was relazified
\* meanwhile.
C30_Witness ==
    /\ srcOp.op = "pin"
    /\ task.state = "done"
    /\ sourceText.data.tag = "Uncompressed"
    /\ pins # <<>>
    /\ pins[Len(pins)].units_ = TextBuf
    /\ relazOp.op = "relazify"
    /\ relazFun = "lazy"

\* ====================================================== the script-data lock

\* A thread that is not inside the lock.
Outside == -1

\* AutoLockScriptData is taken with every thread outside, lock or no lock.
AutoLockScriptData_unlocked(crit) == TRUE

\* AutoLockScriptData: the lock is taken when no thread is inside.
AutoLockScriptData(crit) == \A s \in DataScripts : crit[s] = Outside

\* The units compiled in this section: two that are equal, one that differs.
LockContents == {Content(<<>>, <<0>>, <<0, 0>>), Content(<<>>, <<1>>, <<0, 0>>)}

notLock ==
    <<tierVars, holderVars, sourceVars, lazyVars, relazVars, xdrVars, buildVars,
      ionTask, sideVars>>

\* Steps outside the lock, by the thread that compiles script s (or by the
\* collector): the script is created, gets its candidate block, is finalized.
LockCreateScript(s) == critical[s] = Outside /\ CreateScript(s)
LockCreateScriptData(s, c, oom) ==
    critical[s] = Outside /\ CreateScriptData(s, c, oom)
LockFinalizeScript(s) == critical[s] = Outside /\ FinalizeScript(s)

\* JSScript::shareScriptData, first half: the thread takes the lock and looks
\* its candidate up in the table (lookupForAdd); it keeps what it found, an
\* entry or nullptr.
LockLookup(s) ==
    LET ssd == scriptData_[s] IN
    /\ scriptLive[s]
    /\ ssd # nullptr
    /\ ssd \notin table
    /\ block[ssd].refCount_ = 1
    /\ critical[s] = Outside
    /\ AutoLockScriptData(critical)
    /\ LET hits == {p \in table : match(block[p], block[ssd])} IN
       IF hits # {}
       THEN \E p \in hits : critical' = [critical EXCEPT ![s] = p]
       ELSE critical' = [critical EXCEPT ![s] = nullptr]
    /\ dataOp' = DataOp("lookupForAdd", {})
    /\ UNCHANGED <<block, table, scriptLive, scriptData_, refErr, notLock>>

\* JSScript::shareScriptData, second half: with the entry it found the thread
\* drops its candidate and points the script at the entry; with none it adds
\* the candidate (a failed add drops it); then it leaves the lock.
LockShare(s, oom) ==
    LET ssd == scriptData_[s]
        p == critical[s]
    IN
    /\ critical[s] # Outside
    /\ IF p # nullptr
       THEN /\ block' = IncRef(DecRef(block, ssd), p)
            /\ scriptData_' = [scriptData_ EXCEPT ![s] = p]
            /\ refErr' = (refErr \/ BadDecRef(block, ssd)
                                 \/ BadIncRef(DecRef(block, ssd), p))
            /\ UNCHANGED table
       ELSE IF oom
       THEN /\ block' = DecRef(block, ssd)
            /\ scriptData_' = [scriptData_ EXCEPT ![s] = nullptr]
            /\ refErr' = (refErr \/ BadDecRef(block, ssd))
            /\ UNCHANGED table
       ELSE /\ table' = table \cup {ssd}
            /\ block' = IncRef(block, ssd)
            /\ refErr' = (refErr \/ BadIncRef(block, ssd))
            /\ UNCHANGED scriptData_
    /\ critical' = [critical EXCEPT ![s] = Outside]
    /\ dataOp' = DataOp("shareScriptData", FreedBy(block, block'))
    /\ UNCHANGED <<scriptLive, notLock>>

\* SweepScriptData takes the lock for the whole sweep.
LockSweep == AutoLockScriptData(critical) /\ SweepScriptData

LockInit == critical = [s \in DataScripts |-> Outside]

LockNext ==
    \/ \E s \in DataScripts : LockCreateScript(s)
    \/ \E s \in DataScripts, c \in LockContents, oom \in BOOLEAN :
          LockCreateScriptData(s, c, oom)
    \/ \E s \in DataScripts : LockLookup(s)
    \/ \E s \in DataScripts, oom \in BOOLEAN : LockShare(s, oom)
    \/ \E s \in DataScripts : LockFinalizeScript(s)
    \/ LockSweep

\* ------------------------------------------------ script-data lock: claims

\* The threads inside the lock.
Inside(crit) == {s \in DataScripts : crit[s] # Outside}

C29_State ==
    /\ ~refErr
    /\ Cardinality(Inside(critical)) <= 1
    /\ \A p \in table : block[p].live
    /\ \A p, q \in table :
         StructurallyEqual(block[p], block[q]) => p = q
    /\ \A s \in Inside(critical) :
         /\ scriptLive[s]
         /\ scriptData_[s] \in BlockPtrs \ table
         /\ block[scriptData_[s]].live
         /\ critical[s] = nullptr =>
                \A p \in table :
                    ~StructurallyEqual(block[p], block[scriptData_[s]])
         /\ critical[s] # nullptr =>
                /\ critical[s] \in table
                /\ StructurallyEqual(block[critical[s]], block[scriptData_[s]])

C29_Step ==
    /\ table' # table =>
        \/ /\ Inside(critical') = {}
           /\ \E s \in DataScripts :
                /\ Inside(critical) = {s}
                /\ table' = table \cup {scriptData_[s]}
        \/ /\ Inside(critical) = {}
           /\ Inside(critical') = {}
           /\ dataOp'.op = "sweep"
           /\ table' \subseteq table
    /\ \A s \in DataScripts :
         (scriptLive[s] /\ ~scriptLive'[s]) =>
             /\ critical[s] = Outside
             /\ critical' = critical
             /\ table' = table
             /\ dataOp'.freed \cap table = {}
             /\ \A p \in table :
                  /\ block'[p].live
                  /\ block'[p].refCount_
                         = block[p].refCount_ - (IF p = scriptData_[s] THEN 1 ELSE 0)
                  /\ block'[p].refCount_ >= 1

C29_SharedReached ==
    \E s, t \in DataScripts :
        /\ s # t
        /\ dataOp.op = "shareScriptData"
        /\ scriptLive[s] /\ scriptLive[t]
        /\ scriptData_[s] = scriptData_[t]
        /\ scriptData_[s] \in table
        /\ block[scriptData_[s]].refCount_ = 3

\* A script was finalized, and released its entry, while another thread was
\* inside the lock after a hit on that entry.
C29_ReleasedWhileLocked ==
    \E s \in DataScripts :
        /\ dataOp.op = "finalize"
        /\ critical[s] \in table
        /\ block[critical[s]].refCount_ = 1
        /\ \A t \in DataScripts : scriptLive[t] => scriptData_[t] # critical[s]

\* ========================================================= the eval cache

\* The bits of JSScript::BitFields that the run-once and eval-cache accessors
\* read and write, as JSScript's constructor leaves them.
NewEvalFields ==
    [treatAsRunOnce_ |-> FALSE, hasRunOnce_ |-> FALSE, hasBeenCloned_ |-> FALSE,
     isActiveEval_ |-> FALSE, isCachedEval_ |-> FALSE]

\* JSScript::hasRunOnce.
hasRunOnce(js) == js.hasRunOnce_

\* JSScript::setTreatAsRunOnce.
setTreatAsRunOnce(js) == [js EXCEPT !.treatAsRunOnce_ = TRUE]

\* JSScript::setHasRunOnce.
setHasRunOnce(js) == [js EXCEPT !.hasRunOnce_ = TRUE]

\* JSScript::setHasBeenCloned.
setHasBeenCloned(js) == [js EXCEPT !.hasBeenCloned_ = TRUE]

\* JSScript::isActiveEval.
isActiveEval(js) == js.isActiveEval_

\* JSScript::isCachedEval.
isCachedEval(js) == js.isCachedEval_

\* JSScript::cacheForEval: asserts that the script is an active eval script
\* and not in the cache, then moves it into the cache and forgets that it ran.
cacheForEval(js) ==
    IF ~(isActiveEval(js) /\ ~isCachedEval(js)) THEN Outcome(js, "AssertionFailure")
    ELSE Outcome([js EXCEPT !.isActiveEval_ = FALSE, !.isCachedEval_ = TRUE,
                            !.hasRunOnce_ = FALSE], "ok")

\* JSScript::uncacheForEval: asserts that the script is in the cache and not
\* active, then makes it active again.
uncacheForEval(js) ==
    IF ~(isCachedEval(js) /\ ~isActiveEval(js)) THEN Outcome(js, "AssertionFailure")
    ELSE Outcome([js EXCEPT !.isCachedEval_ = FALSE, !.isActiveEval_ = TRUE], "ok")

\* JSScript::setActiveEval: sets the bit, whatever the script's state.
setActiveEval(js) == [js EXCEPT !.isActiveEval_ = TRUE]

\* The last call on the script: its name, the bits it found, its result.
EvalOp(op, pre, result) == [op |-> op, pre |-> pre, result |-> result]

notEval ==
    <<tierVars, dataVars, holderVars, refErr, sourceVars, lazyVars, relazVars,
      xdrVars, buildVars, bgVars, guards, countsVars, cacheVars>>

\* One call on the script.
EvalCall(op, out) ==
    /\ evalScript' = out.js
    /\ evalOp' = EvalOp(op, evalScript, out.result)
    /\ UNCHANGED notEval

EvalSetTreatAsRunOnce ==
    EvalCall("setTreatAsRunOnce", Outcome(setTreatAsRunOnce(evalScript), "ok"))
EvalSetHasRunOnce == EvalCall("setHasRunOnce", Outcome(setHasRunOnce(evalScript), "ok"))
EvalSetHasBeenCloned ==
    EvalCall("setHasBeenCloned", Outcome(setHasBeenCloned(evalScript), "ok"))
EvalSetActiveEval == EvalCall("setActiveEval", Outcome(setActiveEval(evalScript), "ok"))
EvalCacheForEval == EvalCall("cacheForEval", cacheForEval(evalScript))
EvalUncacheForEval == EvalCall("uncacheForEval", uncacheForEval(evalScript))

EvalInit ==
    /\ evalScript = NewEvalFields
    /\ evalOp = EvalOp("none", NewEvalFields, "ok")

EvalNext ==
    \/ EvalSetTreatAsRunOnce
    \/ EvalSetHasRunOnce
    \/ EvalSetHasBeenCloned
    \/ EvalSetActiveEval
    \/ EvalCacheForEval
    \/ EvalUncacheForEval

\* ----------------------------------------------------- the eval cache: claims

\* C40: after any sequence of setActiveEval, cacheForEval and uncacheForEval
\* the script is never both an active eval script and a cached one;
\* cacheForEval moves active to cached and clears hasRunOnce, uncacheForEval
\* moves cached back to active, and each leaves every other bit unchanged.
C40_State == ~(isActiveEval(evalScript) /\ isCachedEval(evalScript))

C40_Step ==
    /\ (evalOp'.op = "cacheForEval" /\ evalOp'.result = "ok") =>
          /\ evalOp'.pre = evalScript
          /\ evalScript.isActiveEval_ /\ ~evalScript.isCachedEval_
          /\ evalScript' = [evalScript EXCEPT !.isActiveEval_ = FALSE,
                                              !.isCachedEval_ = TRUE,
                                              !.hasRunOnce_ = FALSE]
    /\ (evalOp'.op = "uncacheForEval" /\ evalOp'.result = "ok") =>
          /\ evalOp'.pre = evalScript
          /\ evalScript.isCachedEval_ /\ ~evalScript.isActiveEval_
          /\ evalScript' = [evalScript EXCEPT !.isCachedEval_ = FALSE,
                                              !.isActiveEval_ = TRUE]

C40_NeverActiveAndCached == []C40_State /\ [][C40_Step]_vars

\* The moves alone: what cacheForEval and uncacheForEval do to a script they
\* accept.
C40_MovesOnly == [][C40_Step]_vars

\* setActiveEval on a script in the cache left it active and cached.
C40_ActiveAndCachedReached ==
    /\ evalOp.op = "setActiveEval"
    /\ evalOp.pre.isCachedEval_ /\ ~evalOp.pre.isActiveEval_
    /\ evalScript.isActiveEval_ /\ evalScript.isCachedEval_

\* ============================================================= AutoDelazify

\* The address of the function's script in a guard's script_.
TheScript == 1

\* What the function handle given to a guard refers to: nothing, or the
\* function.
TheFunction == 1

\* An AutoDelazify: the script it holds (nullptr when it holds none) and the
\* veto it found on it.
AutoDelazify(script, oldDoNotRelazify) ==
    [script_ |-> script, oldDoNotRelazify_ |-> oldDoNotRelazify]

\* The guard as its constructor's initializers leave it.
NewAutoDelazify == AutoDelazify(nullptr, FALSE)

\* A guard and the script after a call on the guard.
GuardOutcome(guard, js) == [guard |-> guard, js |-> js]

\* AutoDelazify::holdScript: for a function, the guard roots its script,
\* remembers the script's veto and sets the veto.
holdScript(guard, js, fun) ==
    IF fun = nullptr THEN GuardOutcome(guard, js)
    ELSE GuardOutcome(AutoDelazify(TheScript, js.doNotRelazify_),
                      setDoNotRelazify(js, TRUE))

\* AutoDelazify::dropScript: the script's veto is set back to what the guard
\* remembered, and the guard holds nothing.
dropScript(guard, js) ==
    IF guard.script_ = nullptr THEN GuardOutcome(guard, js)
    ELSE GuardOutcome([guard EXCEPT !.script_ = nullptr],
                      setDoNotRelazify(js, guard.oldDoNotRelazify_))

\* AutoDelazify::operator=: dropScript, then holdScript.
AutoDelazify_assign(guard, js, fun) ==
    LET dropped == dropScript(guard, js)
    IN holdScript(dropped.guard, dropped.js, fun)

\* The function handles a caller can give a guard.
GuardFunctions == IF relazFun = "none" THEN {nullptr} ELSE {nullptr, TheFunction}

\* The guards that hold the script.
Holding(gs) == {i \in DOMAIN gs : gs[i].script_ # nullptr}

notGuard ==
    <<tierVars, dataVars, holderVars, refErr, sourceVars, lazyVars, xdrVars,
      buildVars, bgVars, evalVars, countsVars, cacheVars>>

\* The function after a guard was given it: holdScript compiles a lazy
\* function again to get its script.
GuardedFunction(fun) == IF fun = nullptr \/ relazFun = "none" THEN relazFun ELSE "script"

\* A guard comes into scope: AutoDelazify(cx, fun).
GuardEnter(fun) ==
    /\ Len(guards) < MaxGuards
    /\ fun \in GuardFunctions
    /\ LET out == holdScript(NewAutoDelazify, relazScript, fun)
       IN /\ guards' = Append(guards, out.guard)
          /\ relazScript' = out.js
          /\ relazFun' = GuardedFunction(fun)
          /\ relazOp' = RelazOp("holdScript", relazScript, "ok", nullptr)
    /\ UNCHANGED notGuard

\* The innermost guard goes out of scope: ~AutoDelazify.
GuardLeave ==
    /\ guards # <<>>
    /\ LET out == dropScript(guards[Len(guards)], relazScript)
       IN /\ guards' = SubSeq(guards, 1, Len(guards) - 1)
          /\ relazScript' = out.js
          /\ relazOp' = RelazOp("dropScript", relazScript, "ok", nullptr)
    /\ UNCHANGED relazFun
    /\ UNCHANGED notGuard

\* A guard in scope is given another function: guard = fun.
GuardAssign(i, fun) ==
    /\ i \in DOMAIN guards
    /\ fun \in GuardFunctions
    /\ LET out == AutoDelazify_assign(guards[i], relazScript, fun)
       IN /\ guards' = [guards EXCEPT ![i] = out.guard]
          /\ relazScript' = out.js
          /\ relazFun' = GuardedFunction(fun)
          /\ relazOp' = RelazOp("operator=", relazScript, "ok", nullptr)
    /\ UNCHANGED notGuard

\* The relazify() testing function marks a script that is on the stack.
GuardMarkOnStack == RelazSetDoNotRelazify(TRUE)

GuardInit == guards = <<>>

GuardNext ==
    \/ \E isSelfHosted, generator, async, defaultCtor \in BOOLEAN,
          lz \in {nullptr, TheLazyScript} :
         RelazCreate(isSelfHosted, generator, async, defaultCtor, lz)
    \/ \E fun \in {nullptr, TheFunction} : GuardEnter(fun)
    \/ GuardLeave
    \/ \E i \in 1..MaxGuards, fun \in {nullptr, TheFunction} : GuardAssign(i, fun)
    \/ GuardMarkOnStack
    \/ Relazification
    \/ RelazDelazify

\* Guards used as automatic objects only: none is assigned to.
GuardNestedNext ==
    \/ \E isSelfHosted, generator, async, defaultCtor \in BOOLEAN,
          lz \in {nullptr, TheLazyScript} :
         RelazCreate(isSelfHosted, generator, async, defaultCtor, lz)
    \/ \E fun \in {nullptr, TheFunction} : GuardEnter(fun)
    \/ GuardLeave
    \/ GuardMarkOnStack
    \/ Relazification
    \/ RelazDelazify

\* ------------------------------------------------------ AutoDelazify: claims

\* C39: while any AutoDelazify holds the script, the script's veto is set and
\* isRelazifiable() is false; a guard that drops the script restores the veto
\* it found when it took the script, so after properly nested guards are all
\* dropped the veto has its original value.
C39_State ==
    Holding(guards) # {} =>
        /\ relazScript.doNotRelazify_
        /\ ~isRelazifiable(relazScript)

C39_Step ==
    /\ (relazOp'.op = "dropScript" /\ Len(guards') < Len(guards)
            /\ guards[Len(guards)].script_ # nullptr) =>
          relazScript'.doNotRelazify_ = guards[Len(guards)].oldDoNotRelazify_
    /\ (relazOp'.op = "holdScript" /\ Len(guards') > Len(guards)
            /\ guards'[Len(guards')].script_ # nullptr) =>
          /\ guards'[Len(guards')].oldDoNotRelazify_ = relazScript.doNotRelazify_
          /\ relazScript'.doNotRelazify_

C39_VetoWhileHeld == []C39_State /\ [][C39_Step]_vars

\* With guards that are only constructed and destroyed, innermost first, the
\* whole of it holds: the veto is set while a guard holds the script, each
\* guard restores what it found, and the outermost guard that holds the script
\* found the veto that is in force again once all are dropped.
C39_NestedVetoWhileHeld ==
    /\ []C39_State
    /\ [][C39_Step]_vars
    /\ [](\A i, j \in Holding(guards) : i < j => guards[j].oldDoNotRelazify_)

\* A guard holds the script, whose veto is off: an outer guard was assigned
\* to while an inner one held the script.
C39_HeldWithoutVeto ==
    /\ relazOp.op = "operator="
    /\ Holding(guards) # {}
    /\ ~relazScript.doNotRelazify_

\* The function was relazified while a guard held its script.
C39_RelazifiedWhileHeld ==
    /\ relazOp.op = "relazify" /\ relazOp.result = "LazyScriptHandle"
    /\ relazFun = "lazy"
    /\ Holding(guards) # {}

\* ============================================ script counts and debug scripts

\* The fields of a JSScript the two maps go with: whether the cell holds a
\* script, and the two bits. A cell that holds no script has them cleared.
SideFields(live, hasScriptCounts, hasDebugScript) ==
    [live |-> live, hasScriptCounts_ |-> hasScriptCounts,
     hasDebugScript_ |-> hasDebugScript]

NoSideScript == SideFields(FALSE, FALSE, FALSE)

\* JSScript::hasScriptCounts.
hasScriptCounts(js) == js.hasScriptCounts_

\* JSScript::hasAnyBreakpointsOrStepMode: the script has a DebugScript.
hasAnyBreakpointsOrStepMode(js) == js.hasDebugScript_

\* The realm's two maps, as the keys they hold.
Realm(counts, debug) == [scriptCountsMap |-> counts, debugScriptMap |-> debug]

\* A script and the realm after an operation, and whether it succeeded.
SideOutcome(js, rlm, ok) == [js |-> js, realm |-> rlm, ok |-> ok]

\* JSScript::initScriptCounts: the counts are allocated and entered in the
\* realm's map under the script, then the bit is set; nothing is written when
\* memory runs out.
initScriptCounts(js, rlm, s, oom) ==
    IF oom THEN SideOutcome(js, rlm, FALSE)
    ELSE SideOutcome([js EXCEPT !.hasScriptCounts_ = TRUE],
                     [rlm EXCEPT !.scriptCountsMap = @ \cup {s}], TRUE)

\* JSScript::releaseScriptCounts: the entry is moved out of the map and the
\* bit cleared.
releaseScriptCounts(js, rlm, s) ==
    SideOutcome([js EXCEPT !.hasScriptCounts_ = FALSE],
                [rlm EXCEPT !.scriptCountsMap = @ \ {s}], TRUE)

\* destroyScriptCounts that clears the bit and leaves the entry in the map.
destroyScriptCounts_keepsEntry(js, rlm, s) ==
    SideOutcome([js EXCEPT !.hasScriptCounts_ = FALSE], rlm, TRUE)

\* JSScript::destroyScriptCounts: releases the counts, if the script has any.
destroyScriptCounts(js, rlm, s) ==
    IF hasScriptCounts(js) THEN releaseScriptCounts(js, rlm, s)
    ELSE SideOutcome(js, rlm, TRUE)

\* JSScript::clearHasScriptCounts.
clearHasScriptCounts(js) == [js EXCEPT !.hasScriptCounts_ = FALSE]

\* JSScript::ensureHasDebugScript: a script without a DebugScript gets one,
\* entered in the realm's map under the script, and the bit is set.
ensureHasDebugScript(js, rlm, s, oom) ==
    IF hasAnyBreakpointsOrStepMode(js) THEN SideOutcome(js, rlm, TRUE)
    ELSE IF oom THEN SideOutcome(js, rlm, FALSE)
    ELSE SideOutcome([js EXCEPT !.hasDebugScript_ = TRUE],
                     [rlm EXCEPT !.debugScriptMap = @ \cup {s}], TRUE)

\* JSScript::releaseDebugScript: the entry is moved out of the map and the bit
\* cleared.
releaseDebugScript(js, rlm, s) ==
    SideOutcome([js EXCEPT !.hasDebugScript_ = FALSE],
                [rlm EXCEPT !.debugScriptMap = @ \ {s}], TRUE)

\* JSScript::destroyDebugScript: releases the DebugScript, if the script has
\* one.
destroyDebugScript(js, rlm, s) ==
    IF hasAnyBreakpointsOrStepMode(js) THEN releaseDebugScript(js, rlm, s)
    ELSE SideOutcome(js, rlm, TRUE)

\* JSScript::finalize, as far as the two maps go: the counts and the
\* DebugScript are destroyed, and the cell is free.
finalize(js, rlm, s) ==
    LET c == destroyScriptCounts(js, rlm, s)
        d == destroyDebugScript(c.js, c.realm, s)
    IN SideOutcome(NoSideScript, d.realm, TRUE)

\* The last operation: its name, its script, whether it succeeded.
SideOp(op, s, ok) == [op |-> op, script |-> s, ok |-> ok]

notCounts ==
    <<tierVars, dataVars, holderVars, refErr, sourceVars, lazyVars, relazVars,
      xdrVars, buildVars, bgVars, evalVars, guards, cacheVars>>

\* One operation on script s.
SideCall(op, s, out) ==
    /\ sideScript' = [sideScript EXCEPT ![s] = out.js]
    /\ realm' = out.realm
    /\ sideOp' = SideOp(op, s, out.ok)
    /\ UNCHANGED notCounts

\* JSScript::Create in a free cell, which may be one a finalized script left.
SideCreate(s) ==
    /\ ~sideScript[s].live
    /\ SideCall("Create", s, SideOutcome(SideFields(TRUE, FALSE, FALSE), realm, TRUE))

\* Code coverage or the profiler asks for counts of a script that has none.
SideInitScriptCounts(s, oom) ==
    /\ sideScript[s].live
    /\ ~hasScriptCounts(sideScript[s])
    /\ SideCall("initScriptCounts", s, initScriptCounts(sideScript[s], realm, s, oom))

SideDestroyScriptCounts(s) ==
    /\ sideScript[s].live
    /\ SideCall("destroyScriptCounts", s, destroyScriptCounts(sideScript[s], realm, s))

\* The realm drops all counts: every key's bit is cleared and the map emptied.
SideClearScriptCounts ==
    /\ realm.scriptCountsMap # {}
    /\ sideScript' = [s \in Scripts |->
                        IF s \in realm.scriptCountsMap
                        THEN clearHasScriptCounts(sideScript[s]) ELSE sideScript[s]]
    /\ realm' = [realm EXCEPT !.scriptCountsMap = {}]
    /\ sideOp' = SideOp("clearScriptCounts", nullptr, TRUE)
    /\ UNCHANGED notCounts

\* The debugger sets a breakpoint or step mode on a script.
SideEnsureHasDebugScript(s, oom) ==
    /\ sideScript[s].live
    /\ SideCall("ensureHasDebugScript", s,
                ensureHasDebugScript(sideScript[s], realm, s, oom))

\* The last breakpoint and step mode of a script are gone.
SideDestroyDebugScript(s) ==
    /\ sideScript[s].live
    /\ hasAnyBreakpointsOrStepMode(sideScript[s])
    /\ SideCall("destroyDebugScript", s, destroyDebugScript(sideScript[s], realm, s))

\* The collector finalizes a script.
SideFinalize(s) ==
    /\ sideScript[s].live
    /\ SideCall("finalize", s, finalize(sideScript[s], realm, s))

CountsInit ==
    /\ sideScript = [s \in Scripts |-> NoSideScript]
    /\ realm = Realm({}, {})
    /\ sideOp = SideOp("none", nullptr, TRUE)

CountsNext ==
    \/ \E s \in Scripts : SideCreate(s)
    \/ \E s \in Scripts, oom \in BOOLEAN : SideInitScriptCounts(s, oom)
    \/ \E s \in Scripts : SideDestroyScriptCounts(s)
    \/ SideClearScriptCounts
    \/ \E s \in Scripts, oom \in BOOLEAN : SideEnsureHasDebugScript(s, oom)
    \/ \E s \in Scripts : SideDestroyDebugScript(s)
    \/ \E s \in Scripts : SideFinalize(s)

\* ------------------------------------ script counts and debug scripts: claims

\* C38: a script has hasScriptCounts set exactly when the realm's counts map
\* has an entry under it, and hasDebugScript set exactly when the debug-script
\* map has one; a finalized script has lost both entries, so no map holds a
\* key that is not a live script.
C38_FlagsMatchMaps ==
    /\ \A s \in Scripts :
          sideScript[s].live =>
              /\ hasScriptCounts(sideScript[s]) <=> s \in realm.scriptCountsMap
              /\ sideScript[s].hasDebugScript_ <=> s \in realm.debugScriptMap
    /\ \A s \in realm.scriptCountsMap \cup realm.debugScriptMap : sideScript[s].live

\* A script that had counts and a DebugScript was finalized while another
\* script keeps its entries in both maps.
C38_Witness ==
    \E s, t \in Scripts :
        /\ s # t
        /\ sideOp = SideOp("finalize", s, TRUE)
        /\ ~sideScript[s].live
        /\ sideScript[t].live
        /\ realm = Realm({t}, {t})

\* ================================================= the uncompressed source cache

\* The keys of the cache (ScriptSourceChunk), the holders and the addresses of
\* decompressed data.
Chunks == 1..NumChunks
HoldEntries == 1..MaxHoldEntries
SourceDataPtrs == 1..NumSourceData

\* An AutoHoldEntry: whether it is in scope, whether cache_ points to the
\* cache, its sourceChunk_ (nullptr: not valid) and the data_ it owns.
AutoHoldEntry(scope, cache, sourceChunk, data) ==
    [scope |-> scope, cache_ |-> cache, sourceChunk_ |-> sourceChunk, data_ |-> data]

\* A holder as its default constructor leaves it, and the memory of one that
\* is not in scope.
NewAutoHoldEntry == AutoHoldEntry(TRUE, FALSE, nullptr, nullptr)
NoAutoHoldEntry == AutoHoldEntry(FALSE, FALSE, nullptr, nullptr)

\* The cache as its default constructor leaves it: no entries, no holder.
NewUncompressedSourceCache == [map_ |-> [c \in Chunks |-> nullptr], holder_ |-> nullptr]

\* The cache, the holders and the heap after an operation, and its result.
CacheOutcome(cache, holders, heap, result) ==
    [cache |-> cache, holders |-> holders, heap |-> heap, result |-> result]

\* The allocator: the lowest free address, nullptr when there is none.
AllocSourceData(heap) ==
    IF \A d \in SourceDataPtrs : heap[d] THEN nullptr
    ELSE CHOOSE d \in SourceDataPtrs :
            ~heap[d] /\ \A e \in SourceDataPtrs : ~heap[e] => d <= e

\* The heap after the data at the given addresses was freed.
FreeSourceData(heap, ds) == [d \in SourceDataPtrs |-> heap[d] /\ d \notin ds]

\* MOZ_ASSERT(!cache_), MOZ_ASSERT(!sourceChunk_.valid()), MOZ_ASSERT(!data_) of
\* AutoHoldEntry::holdEntry and holdUnits.
holdEntry_assert(he) == ~he.cache_ /\ he.sourceChunk_ = nullptr /\ he.data_ = nullptr

\* AutoHoldEntry::holdEntry.
AutoHoldEntry_holdEntry(he, c) == [he EXCEPT !.cache_ = TRUE, !.sourceChunk_ = c]

\* MOZ_ASSERT(cache_), MOZ_ASSERT(sourceChunk_.valid()), MOZ_ASSERT(!data_) of
\* AutoHoldEntry::deferDelete.
deferDelete_assert(he) == he.cache_ /\ he.sourceChunk_ # nullptr /\ he.data_ = nullptr

\* AutoHoldEntry::deferDelete: the holder forgets the cache and the chunk and
\* owns the data.
deferDelete(he, data) ==
    [he EXCEPT !.cache_ = FALSE, !.sourceChunk_ = nullptr, !.data_ = data]

\* AutoHoldEntry::holdUnits: the holder owns units that are in no cache.
holdUnits(cache, holders, heap, h, oom) ==
    LET d == AllocSourceData(heap)
    IN IF ~holdEntry_assert(holders[h])
       THEN CacheOutcome(cache, holders, heap, "AssertionFailure")
       ELSE IF oom \/ d = nullptr THEN CacheOutcome(cache, holders, heap, "oom")
       ELSE CacheOutcome(cache, [holders EXCEPT ![h].data_ = d],
                         [heap EXCEPT ![d] = TRUE], "ok")

\* UncompressedSourceCache::holdEntry: the holder is registered with the
\* cache for the chunk; no holder was.
holdEntry(cache, holders, heap, h, c) ==
    IF cache.holder_ # nullptr \/ ~holdEntry_assert(holders[h])
    THEN CacheOutcome(cache, holders, heap, "AssertionFailure")
    ELSE CacheOutcome([cache EXCEPT !.holder_ = h],
                      [holders EXCEPT ![h] = AutoHoldEntry_holdEntry(@, c)],
                      heap, "ok")

\* UncompressedSourceCache::releaseEntry: the registered holder leaves.
releaseEntry(cache, h) ==
    IF cache.holder_ # h THEN [cache |-> cache, result |-> "AssertionFailure"]
    ELSE [cache |-> [cache EXCEPT !.holder_ = nullptr], result |-> "ok"]

\* UncompressedSourceCache::lookup: a hit registers the holder for the chunk
\* and returns the cached data; a miss returns nullptr.
lookup(cache, holders, heap, h, c) ==
    IF cache.holder_ # nullptr THEN CacheOutcome(cache, holders, heap, "AssertionFailure")
    ELSE IF cache.map_[c] = nullptr THEN CacheOutcome(cache, holders, heap, "miss")
    ELSE holdEntry(cache, holders, heap, h, c)

\* UncompressedSourceCache::put: the decompressed data of the chunk enters the
\* map (data the map had for the chunk is freed) and the holder is registered;
\* when memory runs out the data is freed and nothing else written.
put(cache, holders, heap, h, c, oom) ==
    LET d == AllocSourceData(heap)
        old == {cache.map_[c]} \ {nullptr}
    IN IF cache.holder_ # nullptr THEN CacheOutcome(cache, holders, heap, "AssertionFailure")
       ELSE IF oom \/ d = nullptr THEN CacheOutcome(cache, holders, heap, "oom")
       ELSE holdEntry([cache EXCEPT !.map_[c] = d], holders,
                      FreeSourceData([heap EXCEPT ![d] = TRUE], old), h, c)

\* purge that frees the held entry's data with the others.
purge_freesHeld(cache, holders, heap) ==
    LET h == cache.holder_
    IN CacheOutcome(NewUncompressedSourceCache,
                    IF h # nullptr THEN [holders EXCEPT ![h] = deferDelete(@, nullptr)]
                    ELSE holders,
                    FreeSourceData(heap, {cache.map_[c] : c \in Chunks} \ {nullptr}),
                    "ok")

\* UncompressedSourceCache::purge: the data of the entry the registered
\* holder holds moves into the holder, which is no longer registered; the map
\* is destroyed with the data of every other entry.
purge(cache, holders, heap) ==
    LET h == cache.holder_
        held == IF h # nullptr /\ holders[h].sourceChunk_ # nullptr
                THEN {cache.map_[holders[h].sourceChunk_]} \ {nullptr} ELSE {}
        freed == ({cache.map_[c] : c \in Chunks} \ {nullptr}) \ held
    IN IF held # {} /\ ~deferDelete_assert(holders[h])
       THEN CacheOutcome(cache, holders, heap, "AssertionFailure")
       ELSE CacheOutcome([map_ |-> [c \in Chunks |-> nullptr],
                          holder_ |-> IF held # {} THEN nullptr ELSE h],
                         IF held # {}
                         THEN [holders EXCEPT
                                  ![h] = deferDelete(@, cache.map_[@.sourceChunk_])]
                         ELSE holders,
                         FreeSourceData(heap, freed), "ok")

\* MOZ_ASSERT(sourceChunk_.valid()) of ~AutoHoldEntry, for a holder whose
\* cache_ is set.
AutoHoldEntry_dtor_assert(he) == he.cache_ => he.sourceChunk_ # nullptr

\* AutoHoldEntry::~AutoHoldEntry: a registered holder leaves the cache; the
\* data the holder owns is freed with it.
AutoHoldEntry_dtor(cache, holders, heap, h) ==
    LET he == holders[h]
        rel == IF he.cache_ THEN releaseEntry(cache, h)
               ELSE [cache |-> cache, result |-> "ok"]
    IN IF ~AutoHoldEntry_dtor_assert(he)
       THEN CacheOutcome(cache, holders, heap, "AssertionFailure")
       ELSE CacheOutcome(rel.cache, [holders EXCEPT ![h] = NoAutoHoldEntry],
                         FreeSourceData(heap, {he.data_} \ {nullptr}), rel.result)

\* The last operation: its name, the holder and the chunk it was given, its
\* result, the addresses of the data it freed.
CacheOp(op, h, c, result, freed) ==
    [op |-> op, holder |-> h, chunk |-> c, result |-> result, freed |-> freed]

notCache ==
    <<tierVars, dataVars, holderVars, refErr, sourceVars, lazyVars, relazVars,
      xdrVars, buildVars, bgVars, evalVars, guards, countsVars>>

\* One operation on the cache.
CacheCall(op, h, c, out) ==
    /\ srcCache' = out.cache
    /\ holdEntries' = out.holders
    /\ cacheHeap' = out.heap
    /\ cacheOp' = CacheOp(op, h, c, out.result,
                          {d \in SourceDataPtrs : cacheHeap[d] /\ ~out.heap[d]})
    /\ UNCHANGED notCache

\* A holder comes into scope.
CacheHolderEnter(h) ==
    /\ ~holdEntries[h].scope
    /\ CacheCall("AutoHoldEntry", h, nullptr,
                 CacheOutcome(srcCache, [holdEntries EXCEPT ![h] = NewAutoHoldEntry],
                              cacheHeap, "ok"))

\* The units of a chunk are asked for through a holder in scope.
CacheLookup(h, c) ==
    /\ holdEntries[h].scope
    /\ CacheCall("lookup", h, c, lookup(srcCache, holdEntries, cacheHeap, h, c))

\* After a miss the chunk is decompressed and put into the cache.
CachePut(h, c, oom) ==
    /\ holdEntries[h].scope
    /\ srcCache.map_[c] = nullptr
    /\ CacheCall("put", h, c, put(srcCache, holdEntries, cacheHeap, h, c, oom))

\* Units that span chunks are copied and given to the holder.
CacheHoldUnits(h, oom) ==
    /\ holdEntries[h].scope
    /\ CacheCall("holdUnits", h, nullptr,
                 holdUnits(srcCache, holdEntries, cacheHeap, h, oom))

\* A collection purges the cache.
CachePurge ==
    CacheCall("purge", nullptr, nullptr, purge(srcCache, holdEntries, cacheHeap))

\* A holder goes out of scope.
CacheHolderLeave(h) ==
    /\ holdEntries[h].scope
    /\ CacheCall("~AutoHoldEntry", h, nullptr,
                 AutoHoldEntry_dtor(srcCache, holdEntries, cacheHeap, h))

CacheInit ==
    /\ srcCache = NewUncompressedSourceCache
    /\ holdEntries = [h \in HoldEntries |-> NoAutoHoldEntry]
    /\ cacheHeap = [d \in SourceDataPtrs |-> FALSE]
    /\ cacheOp = CacheOp("none", nullptr, nullptr, "ok", {})

CacheNext ==
    \/ \E h \in HoldEntries : CacheHolderEnter(h)
    \/ \E h \in HoldEntries, c \in Chunks : CacheLookup(h, c)
    \/ \E h \in HoldEntries, c \in Chunks, oom \in BOOLEAN : CachePut(h, c, oom)
    \/ \E h \in HoldEntries, oom \in BOOLEAN : CacheHoldUnits(h, oom)
    \/ CachePurge
    \/ \E h \in HoldEntries : CacheHolderLeave(h)

\* ------------------------------------- the uncompressed source cache: claims

\* The data a holder can read: the data it owns, or the data of the entry it
\* is registered for.
HeldData(h) ==
    IF holdEntries[h].data_ # nullptr THEN holdEntries[h].data_
    ELSE IF holdEntries[h].cache_ THEN srcCache.map_[holdEntries[h].sourceChunk_]
    ELSE nullptr

\* C35: purging the cache while a holder holds one of its entries does not
\* free that entry's data: the data moves into the holder, which leaves the
\* cache and keeps the data allocated until the holder is destroyed; every
\* entry not held is removed and its data freed; at most one holder is
\* registered with the cache at any time.
C35_State ==
    /\ \A h \in HoldEntries : holdEntries[h].cache_ <=> srcCache.holder_ = h
    /\ \A h \in HoldEntries :
          /\ holdEntries[h].cache_ => HeldData(h) # nullptr
          /\ HeldData(h) # nullptr =>
                /\ holdEntries[h].scope
                /\ cacheHeap[HeldData(h)]
                /\ \A g \in HoldEntries \ {h} : HeldData(g) # HeldData(h)
          /\ holdEntries[h].data_ # nullptr =>
                \A c \in Chunks : srcCache.map_[c] # holdEntries[h].data_

C35_Step ==
    /\ cacheOp'.op = "purge" =>
          /\ \A c \in Chunks : srcCache'.map_[c] = nullptr
          /\ \A h \in HoldEntries :
                /\ HeldData(h) # nullptr =>
                      /\ holdEntries'[h].data_ = HeldData(h)
                      /\ ~holdEntries'[h].cache_
                      /\ cacheHeap'[HeldData(h)]
          /\ srcCache'.holder_ = nullptr
          /\ \A c \in Chunks :
                (srcCache.map_[c] # nullptr
                   /\ \A h \in HoldEntries : HeldData(h) # srcCache.map_[c]) =>
                      ~cacheHeap'[srcCache.map_[c]]
    /\ \A h \in HoldEntries :
          (HeldData(h) # nullptr /\ holdEntries'[h].scope) =>
              /\ HeldData(h)' = HeldData(h)
              /\ cacheHeap'[HeldData(h)]

C35_PurgeKeepsHeldEntry == []C35_State /\ [][C35_Step]_vars

\* The cache was purged while a holder held one of its two entries: the
\* holder owns the data of its entry, the other entry's data is freed.
C35_Witness ==
    \E h \in HoldEntries :
        /\ cacheOp.op = "purge"
        /\ holdEntries[h].scope /\ ~holdEntries[h].cache_
        /\ holdEntries[h].data_ # nullptr
        /\ cacheHeap[holdEntries[h].data_]
        /\ cacheOp.freed # {}
        /\ {d \in SourceDataPtrs : cacheHeap[d]} = {holdEntries[h].data_}
        /\ srcCache = NewUncompressedSourceCache

Init ==
    /\ TierInit /\ DataInit /\ HolderInit /\ SourceInit /\ LazyInit
    /\ RelazInit
    /\ XdrInit
    /\ LayoutInit
    /\ BuildInit
    /\ BgInit
    /\ LockInit
    /\ EvalInit
    /\ GuardInit
    /\ CountsInit
    /\ CacheInit

SpecTier == Init /\ [][TierNext]_vars

SpecData == Init /\ [][DataNext]_vars

SpecRef == Init /\ [][RefNext]_vars

SpecSource == Init /\ [][SourceNext]_vars

\* A PinnedUnits is an automatic object: its scope ends, so the innermost pin
\* is released if it stays in scope long enough.
SpecSourceLive == Init /\ [][SourceNext]_vars /\ WF_vars(Unpin)

SpecBinAST == Init /\ [][BinASTNext]_vars

SpecLazy == Init /\ [][LazyNext]_vars

SpecRelazify == Init /\ [][RelazNext]_vars

SpecXDR == Init /\ [][XdrNext]_vars

SpecLayout == Init /\ [][LayoutNext]_vars

SpecBuild == Init /\ [][BuildNext]_vars

SpecBackground == Init /\ [][BgNext]_vars

SpecLock == Init /\ [][LockNext]_vars

SpecEval == Init /\ [][EvalNext]_vars

SpecCache == Init /\ [][CacheNext]_vars

SpecCounts == Init /\ [][CountsNext]_vars

SpecGuard == Init /\ [][GuardNext]_vars

SpecGuardNested == Init /\ [][GuardNestedNext]_vars

====
